---- MODULE Spec2Model ----
(***************************************************************************)
(* Verification model of Pluggy (wrstt/Pluggy).                            *)
(*                                                                         *)
(* The fan-out coordinator, pluggy/core/source_manager.py                  *)
(*   SearchCache, SourceHealth, SourceManager.search, _safe_search,        *)
(*   _source_block_reason, _record_source_outcome, reload_sources and the  *)
(*   result pipeline (_deduplicate, _aggregate_results, _apply_filters,    *)
(*   _sort_results);                                                       *)
(* the search jobs of pluggy/web/app.py: _start_search_job, its runner     *)
(* thread, cancel_search_job and the table of the jobs;                    *)
(* the downloads: pluggy/core/download_manager.py (queue_download,         *)
(* _process_job, _download_file, pause_download, resume_download,          *)
(* cancel_download, delete_download, retry_download, set_max_concurrent),  *)
(* pluggy/models/download_job.py and the backends of                       *)
(* pluggy/core/download_backends.py, with the bytes NativeRequestsBackend  *)
(* leaves in the file when it resumes;                                     *)
(* the session context of pluggy/core/request_context.py on the background *)
(* threads; the result lists SearchCache holds, as objects; the EventBus   *)
(* of pluggy/core/event_bus.py; the last_error attribute of a provider     *)
(* instance that several _safe_search calls share; the per-template cache  *)
(* of HTTPSource, pluggy/sources/http_source.py; and the profile settings  *)
(* of SettingsManager.get and set, pluggy/core/settings_manager.py.        *)
(*                                                                         *)
(* Time: one clock `now`, in seconds, stands for time.time() and           *)
(* time.monotonic() alike; it advances in ticks of TickSeconds.  A poll    *)
(* slice (0.25 s) is shorter than a tick, so the collection loop may go    *)
(* round any number of times within one tick.                              *)
(***************************************************************************)
EXTENDS Integers, Sequences, FiniteSets, TLC

----------------------------------------------------------------------------
(* Bounds of the model *)

\* number of download jobs queued in one behaviour
MaxDownloads == 2
\* number of chunks a response delivers at most
MaxChunks == 2
\* number of set_max_concurrent calls in one behaviour
MaxCapacityChanges == 1

\* length of the lists of results handed to the pipeline's functions
MaxLen == 3

\* number of reload_sources calls in one behaviour
MaxReloads == 2

\* number of SourceManager.search calls in one behaviour
MaxSearches == 3
\* number of SourceManager.search calls in one behaviour of SpecFanOut
MaxFanOutSearches == 1

\* number of search() calls in one behaviour of SpecSkip
MaxSkipSearches == 2
\* number of SourceManager.search calls in one behaviour of SpecJob
MaxJobSearches == 1
\* number of search() calls that may be running at the same time
MaxActive == 1
\* length of the resource of SpecResume, in bytes
MaxPayload == 3

\* bytes in one chunk of response.iter_content in SpecResume
ChunkBytes == 2

\* number of retry_download calls in one behaviour of SpecRetry
MaxRetries == 2
\* number of HTTPSource.search calls in one behaviour of SpecHttp
MaxHttpSearches == 3
\* number of steps of the clock in one behaviour of SpecHttp, and their length
MaxHttpTicks == 2
HttpTickSeconds == 200
\* number of calls of set_session and of SettingsManager.get and set in one
\* behaviour of SpecSettings
MaxSettingsCalls == 5
\* number of control calls with an id that is not in self.jobs in one behaviour
MaxAbsentCalls == 1

\* number of calls of the event bus in one behaviour of SpecBus
MaxBusOps == 4

\* number of list objects made in one behaviour of SpecHeap
MaxLists == 2

\* number of rows a list object of SpecHeap grows to
MaxRows == 2

\* number of requests served in one behaviour of SpecSession
MaxRequests == 3

\* number of createJob calls in one behaviour of SpecTable
MaxCreates == 3
\* number of ticks of the clock of the job table in one behaviour
MaxTableTicks == 3
\* seconds the clock of the job table advances in one tick
TableTickSeconds == 1000

\* number of ticks of the clock in one behaviour
MaxTicks == 3
\* seconds the clock advances in one tick
TickSeconds == 100

----------------------------------------------------------------------------
(* Providers *)

Sources == {"PirateBay", "OpenDirectory", "Prowlarr"}

\* str.lower() on the provider names of the model
Lower(name) ==
    CASE name = "PirateBay" -> "piratebay"
      [] name = "OpenDirectory" -> "opendirectory"
      [] name = "Prowlarr" -> "prowlarr"
      [] name = "HTTP" -> "http"
      [] OTHER -> name

SearchIds == 1..MaxSearches

\* who submits _safe_search tasks: the search() calls and the search job
JobId == 0
Callers == SearchIds \cup {JobId}

NoSource == "-"

----------------------------------------------------------------------------
(* Search results (pluggy/models/search_result.py) and what the providers   *)
(* of the model return                                                      *)

MkResult(title, magnet, size, seeds, leeches, source, infohash) ==
    [title |-> title, magnet |-> magnet, size |-> size, seeds |-> seeds,
     leeches |-> leeches, source |-> source, infohash |-> infohash,
     link_candidates |-> << >>, aggregated_sources |-> << >>,
     link_quality |-> 0]

MagnetA == "magnet:?xt=urn:btih:AAAAAAAAAAAAAAAAAAAAAAAAAAAAAAAAAAAAAAAA"
HashA == "AAAAAAAAAAAAAAAAAAAAAAAAAAAAAAAAAAAAAAAA"
MagnetB == "magnet:?xt=urn:btih:BBBBBBBBBBBBBBBBBBBBBBBBBBBBBBBBBBBBBBBB"
HashB == "BBBBBBBBBBBBBBBBBBBBBBBBBBBBBBBBBBBBBBBB"

\* a link candidate that is a bare string, as ProwlarrSource.search builds them
StringCandidate(url) ==
    [is_dict |-> FALSE, url |-> url, source |-> "", quality |-> 0, seeds |-> 0,
     leeches |-> 0, size |-> 0]

\* the list a provider's search() returns when it finds something
ProviderResults(p) ==
    CASE p = "PirateBay" ->
           << MkResult("Acme Synth 2024 v3.1", MagnetA, 100, 5, 1, "PirateBay", HashA) >>
      [] p = "OpenDirectory" ->
           << MkResult("Acme Synth 2024 v3.1 macOS", "https://mega.nz/file/abc",
                       0, 0, 0, "OpenDirectory", "") >>
      [] p = "Prowlarr" ->
           \* ProwlarrSource.search fills link_candidates with the bare links
           \* and aggregated_sources with the indexer
           << [MkResult("Other Tool 1.0", MagnetB, 200, 7, 2, "Prowlarr", HashB)
                 EXCEPT !.link_candidates = << StringCandidate(MagnetB) >>,
                        !.aggregated_sources = << "IndexerX" >>] >>
      [] OTHER -> << >>

ErrHardFail == "hard fail"
ErrUpstream == "upstream request failed"
ErrNoOdLinks == "No open-directory file links found for this query."

\* What one call of provider.search(query, page) can do: raise, or return a
\* list and leave a value in the provider's last_error attribute.
\* (when it raises, last_error stands for the text of the exception).
ProviderOutcomes(p) ==
    { [raises |-> FALSE, results |-> << >>, last_error |-> ErrUpstream],
      [raises |-> FALSE, results |-> ProviderResults(p), last_error |-> ""] }
    \cup
    (CASE p = "OpenDirectory" ->
            { [raises |-> FALSE, results |-> << >>, last_error |-> ErrNoOdLinks] }
       [] p = "PirateBay" ->
            { [raises |-> TRUE, results |-> << >>, last_error |-> ErrHardFail] }
       [] OTHER -> {})

----------------------------------------------------------------------------
(* The inputs of SourceManager.search *)

\* the inputs of search(query, page, per_page, filters) the model draws
Queries == {" ", "acme"}
Strip(q) == IF q = " " THEN "" ELSE q

FilterSet ==
    { [wait_for_all_sources |-> FALSE, enabled_sources |-> {}],
      [wait_for_all_sources |-> TRUE, enabled_sources |-> {"PirateBay", "OpenDirectory"}] }

VARIABLES
    cfg,        \* the reliability settings of this SourceManager
    limit,      \* how many search() calls the run makes
    now,        \* the clock
    enabled,    \* SourceManager._enabled
    health,     \* SourceManager._health
    cache,      \* SourceManager._cache._cache (an OrderedDict, oldest first)
    srch,       \* the frame of each SourceManager.search call
    task,       \* the _safe_search task of each (caller, provider)
    job,        \* the search job of app.py: its dict and its runner thread
    rl,         \* what reload_sources has done: the hooks called, the events emitted
    xs,         \* a list of results handed to the pipeline's functions
    px,         \* what the pipeline's functions make of xs
    dm,         \* the DownloadManager: max_concurrent and its semaphores
    dj,         \* DownloadManager.jobs: the DownloadJob of each job id
    dw,         \* the _process_job thread of each job
    ctl,        \* the pause_download or resume_download call under way
    dev,        \* the download events emitted about each job
    sj,         \* search_jobs of app.py, the table of the search jobs
    ss,         \* the session context of each thread, and what ran under which
    hp,         \* the list objects the search cache and its callers hold
    bus,        \* an EventBus: its subscribers and the calls of its handlers
    fs,         \* an output file, the response to its download and the result
    pe,         \* one provider instance and the _safe_search calls that share it
    hc,         \* the per-template cache of an HTTPSource and its upstream queries
    stg         \* the profile settings: the persisted row and each thread's cache

vars == << cfg, limit, now, enabled, health, cache, srch, task, job, rl, xs, px,
          dm, dj, dw, ctl, dev, sj, ss, hp, bus, fs, pe, hc, stg >>

\* the variables no step of a search or of a search job writes
pure_vars == << xs, px >>
download_vars == << dm, dj, dw, ctl, dev >>
\* the variables of the parts of the program that are modelled on their own
later_vars == << pe, hc, stg >>
extra_vars == << sj, ss, hp, bus, fs, later_vars >>
aside == << rl, pure_vars, download_vars, extra_vars >>

\* the variables of the SourceManager and of the search jobs
search_vars == << cfg, limit, now, enabled, health, cache, srch, task, job >>
\* the variables no step of the DownloadManager writes
beside == << search_vars, rl, pure_vars, extra_vars >>
main_vars == << search_vars, rl, pure_vars, download_vars, later_vars >>
but_pe == << search_vars, rl, pure_vars, download_vars, sj, ss, hp, bus, fs, hc, stg >>
but_hc == << search_vars, rl, pure_vars, download_vars, sj, ss, hp, bus, fs, pe, stg >>
but_stg == << search_vars, rl, pure_vars, download_vars, sj, ss, hp, bus, fs, pe, hc >>
but_sj == << main_vars, ss, hp, bus, fs >>
but_ss == << main_vars, sj, hp, bus, fs >>
but_hp == << main_vars, sj, ss, bus, fs >>
but_bus == << main_vars, sj, ss, hp, fs >>
but_fs == << main_vars, sj, ss, hp, bus >>

Max(a, b) == IF a >= b THEN a ELSE b
Min(a, b) == IF a <= b THEN a ELSE b

\* every order in which the elements of a finite set can be visited
Orders(S) ==
    { f \in [1..Cardinality(S) -> S] : \A i, j \in 1..Cardinality(S) : f[i] = f[j] => i = j }

----------------------------------------------------------------------------
(* SourceHealth and the circuit breaker *)

\* last_latency_ms, last_attempt_at and last_success_at feed only the routing
\* score, which orders the submissions; they are left out with it.
NewHealth ==
    [attempts |-> 0, successes |-> 0, failures |-> 0, consecutive_failures |-> 0,
     last_error |-> "", cooldown_until |-> 0, circuit_open |-> FALSE,
     skipped_due_circuit |-> 0]

CircuitOpenMessage(remain) ==
    "Circuit open after failures; retrying automatically in " \o ToString(remain) \o "s."

\* "Circuit open" in w, for the messages of the model
ContainsCircuitOpen(w) ==
    \E n \in 1..cfg.circuit_cooldown_seconds : w = CircuitOpenMessage(n)

\* SourceBlockReason counting a skip as a failed attempt
SourceBlockReasonCountsFailure(h, t) ==
    IF h.circuit_open /\ t < h.cooldown_until
      THEN [h |-> [h EXCEPT !.skipped_due_circuit = @ + 1, !.attempts = @ + 1,
                            !.failures = @ + 1],
            reason |-> CircuitOpenMessage(Max(1, h.cooldown_until - t))]
      ELSE IF h.circuit_open /\ t >= h.cooldown_until
        THEN [h |-> [h EXCEPT !.circuit_open = FALSE, !.consecutive_failures = 0,
                              !.cooldown_until = 0],
              reason |-> ""]
        ELSE [h |-> h, reason |-> ""]

\* _source_block_reason: the health record it leaves and the string it returns
SourceBlockReason(h, t) ==
    IF h.circuit_open /\ t < h.cooldown_until
      THEN [h |-> [h EXCEPT !.skipped_due_circuit = @ + 1],
            reason |-> CircuitOpenMessage(Max(1, h.cooldown_until - t))]
      ELSE IF h.circuit_open /\ t >= h.cooldown_until
        THEN [h |-> [h EXCEPT !.circuit_open = FALSE, !.consecutive_failures = 0,
                              !.cooldown_until = 0],
              reason |-> ""]
        ELSE [h |-> h, reason |-> ""]

\* _record_source_outcome on one health record, at time t
RecordSourceOutcome(h, ok, error_message, attempts, t) ==
    LET h1 == [h EXCEPT !.attempts = @ + Max(1, attempts)] IN
    IF ok
      THEN [h1 EXCEPT !.successes = @ + 1, !.consecutive_failures = 0,
                      !.last_error = "", !.circuit_open = FALSE,
                      !.cooldown_until = 0]
      ELSE LET h2 == [h1 EXCEPT !.failures = @ + 1, !.consecutive_failures = @ + 1,
                                !.last_error = error_message] IN
           IF h2.consecutive_failures >= cfg.circuit_failure_threshold
             THEN [h2 EXCEPT !.circuit_open = TRUE,
                             !.cooldown_until = t + cfg.circuit_cooldown_seconds]
             ELSE h2

----------------------------------------------------------------------------
(* The result pipeline: _deduplicate, _aggregate_results, _apply_filters,   *)
(* _sort_results.  The regular expressions and URL parsing of the source are *)
(* tabulated for the titles and links of the model (TitleInfo, LinkInfo).   *)

\* What the source's string functions compute for a title of the model:
\*   lower       (title or "").strip().lower()
\*   stem, version   the two halves of _content_key(title), stem as its tokens
\*   specificity _title_specificity_score(title)
\*   version_score, quality_bonus   the parts of _sort_results.sort_key
TitleInfo(title) ==
    CASE title = "Acme Synth 2024 v3.1" ->
           [lower |-> "acme synth 2024 v3.1", stem |-> <<"acme", "synth", "v3.1">>,
            version |-> "2024", specificity |-> 70,
            version_score |-> 2024000000, quality_bonus |-> 0]
      [] title = "Acme Synth 2024 v3.1 macOS" ->
           [lower |-> "acme synth 2024 v3.1 macos",
            stem |-> <<"acme", "synth", "v3.1", "macos">>,
            version |-> "2024", specificity |-> 76,
            version_score |-> 2024000000, quality_bonus |-> 0]
      [] title = "ACME Synth 2024 v3.1" ->
           [lower |-> "acme synth 2024 v3.1", stem |-> <<"acme", "synth", "v3.1">>,
            version |-> "2024", specificity |-> 70,
            version_score |-> 2024000000, quality_bonus |-> 0]
      [] title = "Alpha Beta 2024" ->
           [lower |-> "alpha beta 2024", stem |-> <<"alpha", "beta">>,
            version |-> "2024", specificity |-> 45,
            version_score |-> 2024000000, quality_bonus |-> 0]
      [] title = "Alpha Beta Gamma 2024" ->
           [lower |-> "alpha beta gamma 2024", stem |-> <<"alpha", "beta", "gamma">>,
            version |-> "2024", specificity |-> 51,
            version_score |-> 2024000000, quality_bonus |-> 0]
      [] title = "Beta Gamma Delta 2024" ->
           [lower |-> "beta gamma delta 2024", stem |-> <<"beta", "gamma", "delta">>,
            version |-> "2024", specificity |-> 51,
            version_score |-> 2024000000, quality_bonus |-> 0]
      [] title = "Other Tool 1.0" ->
           [lower |-> "other tool 1.0", stem |-> <<"other", "tool", "1.0">>,
            version |-> "1.0", specificity |-> 14,
            version_score |-> 1000000, quality_bonus |-> 0]
      [] OTHER ->
           [lower |-> "", stem |-> << >>, version |-> "", specificity |-> 0,
            version_score |-> 0, quality_bonus |-> 0]

\* What _link_quality and _deduplicate read off a link of the model:
\*   lower   (link or "").strip().lower();  magnet   it starts with "magnet:"
\*   and the score parts of an HTTP link (scheme, extension, path, host)
LinkInfo(link) ==
    CASE link = MagnetA ->
           [lower |-> "magnet:?xt=urn:btih:aaaaaaaaaaaaaaaaaaaaaaaaaaaaaaaaaaaaaaaa",
            magnet |-> TRUE, https |-> FALSE, archive_ext |-> FALSE,
            file_path |-> FALSE, host_weight |-> 0]
      [] link = MagnetB ->
           [lower |-> "magnet:?xt=urn:btih:bbbbbbbbbbbbbbbbbbbbbbbbbbbbbbbbbbbbbbbb",
            magnet |-> TRUE, https |-> FALSE, archive_ext |-> FALSE,
            file_path |-> FALSE, host_weight |-> 0]
      [] link = "https://mega.nz/file/abc" ->
           [lower |-> "https://mega.nz/file/abc", magnet |-> FALSE, https |-> TRUE,
            archive_ext |-> FALSE, file_path |-> TRUE, host_weight |-> 24]
      [] link = "HTTPS://MEGA.NZ/file/abc" ->
           [lower |-> "https://mega.nz/file/abc", magnet |-> FALSE, https |-> TRUE,
            archive_ext |-> FALSE, file_path |-> TRUE, host_weight |-> 24]
      [] OTHER ->
           [lower |-> link, magnet |-> FALSE, https |-> FALSE, archive_ext |-> FALSE,
            file_path |-> FALSE, host_weight |-> 0]

\* _link_quality
LinkQuality(result) ==
    LET li == LinkInfo(result.magnet) IN
    IF result.infohash # "" \/ li.magnet
      THEN Min(Max(result.seeds, 0), 5000) + (Min(Max(result.leeches, 0), 500) \div 2)
      ELSE (IF li.https THEN 25 ELSE 0)
           + (IF li.archive_ext THEN 30 ELSE 0)
           + (IF li.file_path THEN 20 ELSE 0)
           + li.host_weight
           + (IF result.size > 0 THEN Min(result.size \div 500, 15) ELSE 0)

\* _content_key: the stem tokens and the version; NoKey stands for ""
NoKey == [stem |-> << >>, version |-> ""]
ContentKey(result) ==
    LET ti == TitleInfo(result.title) IN
    IF ti.stem = << >> THEN NoKey
    ELSE [stem |-> ti.stem, version |-> IF ti.version = "" THEN "nover" ELSE ti.version]

SeqToSet(seq) == { seq[i] : i \in 1..Len(seq) }

\* the position of the first element of seq that satisfies Test, 0 if none
FirstIndex(seq, Test(_)) ==
    IF \E i \in 1..Len(seq) : Test(seq[i])
      THEN CHOOSE i \in 1..Len(seq) : Test(seq[i]) /\ \A j \in 1..(i - 1) : ~Test(seq[j])
      ELSE 0

\* KeepsNew replacing the kept result on equal seeds too
KeepsNewOnTie(result, kept) == result.seeds >= kept.seeds

\* _deduplicate, line 505: a later result of the same infohash replaces the
\* one kept
KeepsNew(result, kept) == result.seeds > kept.seeds

\* _deduplicate: seen_hash and seen_nonhash are kept as lists of [k, v] in
\* insertion order, as the dicts of the source are
RECURSIVE DedupLoop(_, _, _)
DedupLoop(results, seen_hash, seen_nonhash) ==
    IF results = << >>
      THEN [ i \in 1..Len(seen_hash) |-> seen_hash[i].v ]
           \o [ i \in 1..Len(seen_nonhash) |-> seen_nonhash[i].v ]
    ELSE
      LET result == Head(results)
          rest == Tail(results)
      IN
      IF result.infohash = ""
        THEN LET k1 == LinkInfo(result.magnet).lower
                 key == IF k1 # "" THEN k1 ELSE TitleInfo(result.title).lower
                 IsKey(e) == e.k = key
             IN IF key = "" THEN DedupLoop(rest, seen_hash, seen_nonhash)
                ELSE IF FirstIndex(seen_nonhash, IsKey) = 0
                  THEN DedupLoop(rest, seen_hash,
                                 Append(seen_nonhash, [k |-> key, v |-> result]))
                  ELSE DedupLoop(rest, seen_hash, seen_nonhash)
        ELSE LET IsHash(e) == e.k = result.infohash
                 i == FirstIndex(seen_hash, IsHash)
             IN IF i = 0
                  THEN DedupLoop(rest,
                                 Append(seen_hash, [k |-> result.infohash, v |-> result]),
                                 seen_nonhash)
                  ELSE IF KeepsNew(result, seen_hash[i].v)
                    THEN DedupLoop(rest, [seen_hash EXCEPT ![i].v = result], seen_nonhash)
                    ELSE DedupLoop(rest, seen_hash, seen_nonhash)

\* Deduplicate returning the list back to front
DeduplicateReversed(results) ==
    LET out == DedupLoop(results, << >>, << >>)
    IN [ i \in 1..Len(out) |-> out[Len(out) + 1 - i] ]

Deduplicate(results) == DedupLoop(results, << >>, << >>)

\* a link candidate: the dict _ensure_link_candidate builds
Candidate(url, source_result, quality) ==
    [is_dict |-> TRUE, url |-> url, source |-> source_result.source,
     quality |-> quality, seeds |-> source_result.seeds,
     leeches |-> source_result.leeches, size |-> source_result.size]

\* _ensure_link_candidate(target, source_result): the target it leaves, or
\* raised when existing.get("url") meets a candidate that is no dict
EnsureLinkCandidate(target, source_result) ==
    LET t1 == IF target.aggregated_sources = << >>
                THEN [target EXCEPT !.aggregated_sources =
                        IF target.source # "" THEN << target.source >> ELSE << >>]
                ELSE target
        url == source_result.magnet
        quality == LinkQuality(source_result)
        Stops(existing) == ~existing.is_dict \/ existing.url = url
        i == FirstIndex(t1.link_candidates, Stops)
    IN
    IF url = "" THEN [raised |-> FALSE, target |-> t1]
    ELSE IF t1.link_candidates = << >>
      THEN [raised |-> FALSE,
            target |-> [t1 EXCEPT !.link_candidates = << Candidate(url, source_result, quality) >>,
                                  !.link_quality = quality]]
    ELSE IF i = 0
      THEN [raised |-> FALSE,
            target |-> [t1 EXCEPT !.link_candidates =
                          Append(@, Candidate(url, source_result, quality))]]
    ELSE IF ~t1.link_candidates[i].is_dict
      THEN [raised |-> TRUE, target |-> t1]
      ELSE [raised |-> FALSE,
            target |-> [t1 EXCEPT !.link_candidates[i].quality = Max(@, quality)]]

\* the candidates of seq with a non-empty url, the first of each url kept
RECURSIVE UniqueByUrl(_, _)
UniqueByUrl(seq, seen) ==
    IF seq = << >> THEN << >>
    ELSE IF Head(seq).url = "" \/ Head(seq).url \in seen
      THEN UniqueByUrl(Tail(seq), seen)
      ELSE << Head(seq) >> \o UniqueByUrl(Tail(seq), seen \cup {Head(seq).url})

\* list.sort(key = quality, reverse = True): stable, best quality first
RECURSIVE SortByQuality(_)
SortByQuality(seq) ==
    IF seq = << >> THEN << >>
    ELSE LET sorted == SortByQuality(Tail(seq))
             x == Head(seq)
             Lower_(c) == c.quality <= x.quality
             i == FirstIndex(sorted, Lower_)
         IN IF i = 0 THEN Append(sorted, x)
            ELSE SubSeq(sorted, 1, i - 1) \o << x >> \o SubSeq(sorted, i, Len(sorted))

\* _merge_result, lines 585-587: a source name joins aggregated_sources once
AppendSource(aggregated_sources, source_name) ==
    IF source_name # "" /\ source_name \notin SeqToSet(aggregated_sources)
      THEN Append(aggregated_sources, source_name)
      ELSE aggregated_sources

\* _merge_result, lines 589-608: the candidates merged, the best one primary
MergeCandidates(b, merged) ==
    IF merged = << >> THEN [b EXCEPT !.link_candidates = merged]
    ELSE [b EXCEPT !.link_candidates = merged, !.magnet = merged[1].url,
                   !.link_quality = merged[1].quality]

\* _merge_result, lines 610-613
MergeSeeds(b, incoming) ==
    IF incoming.seeds > b.seeds
      THEN [b EXCEPT !.seeds = incoming.seeds, !.leeches = incoming.leeches]
      ELSE b

\* _merge_result, lines 615-617
MergeSize(b, incoming) ==
    IF incoming.size > b.size THEN [b EXCEPT !.size = incoming.size] ELSE b

\* _merge_result, lines 619-621
MergeTitle(b, incoming) ==
    IF TitleInfo(incoming.title).specificity > TitleInfo(b.title).specificity
      THEN [b EXCEPT !.title = incoming.title]
      ELSE b

\* _merge_result, lines 623-625
MergeSource(b) ==
    IF Len(b.aggregated_sources) > 1
      THEN [b EXCEPT !.source = b.aggregated_sources[1] \o " +"
                                  \o ToString(Len(b.aggregated_sources) - 1)]
      ELSE b

\* _merge_result once _ensure_link_candidate has left b1, lines 585-626
MergeInto(b1, base, incoming) ==
    MergeSource(
      MergeTitle(
        MergeSize(
          MergeSeeds(
            MergeCandidates(
              [b1 EXCEPT !.aggregated_sources =
                  AppendSource(AppendSource(b1.aggregated_sources, base.source),
                               incoming.source)],
              SortByQuality(UniqueByUrl(b1.link_candidates \o incoming.link_candidates,
                                        {}))),
            incoming),
          incoming),
        incoming))

\* candidate.get raises on a candidate that is no dict
NoDicts(candidates) == \E i \in 1..Len(candidates) : ~candidates[i].is_dict

\* _merge_result(base, incoming)
MergeResult(base, incoming) ==
    LET e == EnsureLinkCandidate(base, incoming) IN
    IF e.raised \/ NoDicts(base.link_candidates \o incoming.link_candidates)
      THEN [raised |-> TRUE, target |-> base]
      ELSE [raised |-> FALSE, target |-> MergeInto(e.target, base, incoming)]

\* _find_compatible_group_key: the position in `grouped` of the first group of
\* the same version whose tokens overlap by at least one half, 0 if none
FindCompatibleGroupKey(key, grouped) ==
    LET tokens == SeqToSet(key.stem)
        Compatible(g) ==
            LET existing == SeqToSet(g.k.stem) IN
            /\ g.k.version = key.version
            /\ existing # {}
            /\ 2 * Cardinality(tokens \cap existing) >= Cardinality(tokens \cup existing)
    IN IF tokens = {} THEN 0 ELSE FirstIndex(grouped, Compatible)

\* _aggregate_results, lines 544-549: the position in `grouped` of the group
\* the key resolves to, 0 if it is a new group
ResolvedKey(key, grouped) ==
    LET IsKey(g) == g.k = key
        exact == FirstIndex(grouped, IsKey)
    IN IF exact # 0 THEN exact ELSE FindCompatibleGroupKey(key, grouped)

\* _aggregate_results: `grouped` is the dict of the source as a list of [k, v]
RECURSIVE AggregateLoop(_, _, _)

\* lines 558-559, the merge done
AggregateMerged(m, i, rest, grouped, passthrough) ==
    IF m.raised THEN [raised |-> TRUE, results |-> << >>]
    ELSE AggregateLoop(rest, [grouped EXCEPT ![i].v = m.target], passthrough)

\* lines 539-559 for a result whose candidates are initialised
AggregateOne(result, key, i, rest, grouped, passthrough) ==
    IF key = NoKey
      THEN AggregateLoop(rest, grouped, Append(passthrough, result))
    ELSE IF i = 0
      THEN AggregateLoop(rest, Append(grouped, [k |-> key, v |-> result]), passthrough)
    ELSE AggregateMerged(MergeResult(grouped[i].v, result), i, rest, grouped,
                         passthrough)

\* lines 535-537
AggregateEnsured(e, rest, grouped, passthrough) ==
    IF e.raised THEN [raised |-> TRUE, results |-> << >>]
    ELSE AggregateOne(e.target, ContentKey(e.target),
                      ResolvedKey(ContentKey(e.target), grouped),
                      rest, grouped, passthrough)

AggregateLoop(results, grouped, passthrough) ==
    IF results = << >>
      THEN [raised |-> FALSE,
            results |-> [ i \in 1..Len(grouped) |-> grouped[i].v ] \o passthrough]
      ELSE AggregateEnsured(EnsureLinkCandidate(Head(results), Head(results)),
                            Tail(results), grouped, passthrough)

AggregateResults(results) == AggregateLoop(results, << >>, << >>)

\* The SearchResult objects of a list after _deduplicate and
\* _aggregate_results have run over it: both work on the objects of the list
\* they are given, not on copies.  _ensure_link_candidate(result, result)
\* writes into every result _deduplicate kept, and _merge_result writes the
\* merged entry into the base of its group.  `ref` is the position of the
\* object in the list.
Referenced(result, ref) ==
    [f \in DOMAIN result \cup {"ref"} |-> IF f = "ref" THEN ref ELSE result[f]]

Dereferenced(result) == [f \in DOMAIN result \ {"ref"} |-> result[f]]

AggregatedInPlace(results) ==
    LET objects == [i \in 1..Len(results) |-> Referenced(results[i], i)]
        unique == Deduplicate(objects)
        unified == AggregateResults(unique).results
        After(i) ==
            LET Is(r) == r.ref = i IN
            IF FirstIndex(unified, Is) # 0
              THEN Dereferenced(unified[FirstIndex(unified, Is)])
            ELSE IF FirstIndex(unique, Is) # 0
              THEN EnsureLinkCandidate(results[i], results[i]).target
            ELSE results[i]
    IN [i \in 1..Len(results) |-> After(i)]

\* Sizes are counted in units of 10^6 bytes, to stay within TLC's integers.
BytesPerGB == 1000

\* _apply_filters with the filters of the model, which set none of min_seeds,
\* size_min_gb and size_max_gb: the defaults 0, 0 and 999 apply
SelectSeq2(seq, Test(_)) == SelectSeq(seq, Test)
ApplyFilters(results, filters) ==
    LET min_seeds == 0
        size_min == 0 * BytesPerGB
        size_max == 999 * BytesPerGB
        SeedsOk(r) == min_seeds > 0 => r.seeds >= min_seeds
        SizeOk(r) == size_min <= r.size /\ r.size <= size_max
    IN SelectSeq2(SelectSeq2(results, SeedsOk), SizeOk)

\* sort_key of _sort_results, and whether key a sorts strictly before key b
SortKey(r) ==
    << 0 - r.seeds, 0 - r.link_quality, 0 - TitleInfo(r.title).version_score,
       0 - r.size, 0 - TitleInfo(r.title).quality_bonus >>

TupleLess(a, b) ==
    \E i \in 1..Len(a) : a[i] < b[i] /\ \A j \in 1..(i - 1) : a[j] = b[j]

\* sorted(results, key = sort_key): stable
RECURSIVE SortResults(_)
SortResults(results) ==
    IF results = << >> THEN << >>
    ELSE LET sorted == SortResults(Tail(results))
             x == Head(results)
             NotBefore(r) == ~TupleLess(SortKey(r), SortKey(x))
             i == FirstIndex(sorted, NotBefore)
         IN IF i = 0 THEN Append(sorted, x)
            ELSE SubSeq(sorted, 1, i - 1) \o << x >> \o SubSeq(sorted, i, Len(sorted))

\* sorted_results[start_idx:end_idx]
Slice(seq, start_idx, end_idx) ==
    SubSeq(seq, Min(start_idx, Len(seq)) + 1, Min(end_idx, Len(seq)))

\* lines 360-375 of search(): dedupe, aggregate, filter, sort, paginate
Pipeline(all_results, page, per_page, filters) ==
    LET unique == Deduplicate(all_results)
        unified == AggregateResults(unique)
        filtered == ApplyFilters(unified.results, filters)
        sorted_results == SortResults(filtered)
        start_idx == (page - 1) * per_page
    IN [raised |-> unified.raised,
        paginated |-> Slice(sorted_results, start_idx, start_idx + per_page),
        total |-> Len(sorted_results)]

----------------------------------------------------------------------------
(* SearchCache *)

max_size == 100
ttl_seconds == 300

\* _make_key: the key is made of the query, the page and the sorted filters;
\* the model keeps the three parts instead of the joined string.
MakeKey(query, page, filters) == << query, page, filters >>

CacheIndex(c, key) ==
    IF \E i \in 1..Len(c) : c[i].key = key
      THEN CHOOSE i \in 1..Len(c) : c[i].key = key
      ELSE 0

Remove(seq, i) == [j \in 1..(Len(seq) - 1) |-> IF j < i THEN seq[j] ELSE seq[j + 1]]

\* CacheGet with the age test the wrong way round
CacheGetInvertedAge(c, key, t) ==
    LET i == CacheIndex(c, key) IN
    IF i = 0
      THEN [cache |-> c, hit |-> FALSE, results |-> << >>, by |-> 0]
      ELSE IF t - c[i].timestamp > ttl_seconds
        THEN [cache |-> Append(Remove(c, i), c[i]), hit |-> TRUE,
              results |-> c[i].results, by |-> c[i].by]
        ELSE [cache |-> Remove(c, i), hit |-> FALSE, results |-> << >>, by |-> 0]

\* SearchCache.get: the cache it leaves, whether it hit, and the list it returns
CacheGet(c, key, t) ==
    LET i == CacheIndex(c, key) IN
    IF i = 0
      THEN [cache |-> c, hit |-> FALSE, results |-> << >>, by |-> 0]
      ELSE IF t - c[i].timestamp < ttl_seconds
        THEN [cache |-> Append(Remove(c, i), c[i]), hit |-> TRUE,
              results |-> c[i].results, by |-> c[i].by]
        ELSE [cache |-> Remove(c, i), hit |-> FALSE, results |-> << >>, by |-> 0]

RECURSIVE Evict(_)
Evict(c) == IF Len(c) > max_size THEN Evict(Tail(c)) ELSE c

\* SearchCache.set; `by` records which search call wrote the entry
CacheSet(c, key, results, t, by) ==
    LET i == CacheIndex(c, key)
        e == [key |-> key, timestamp |-> t, results |-> results, by |-> by]
        c1 == IF i = 0 THEN Append(c, e) ELSE Append(Remove(c, i), e)
    IN Evict(c1)

----------------------------------------------------------------------------
(* The state of a search() call and of its provider tasks *)

NoWarnings == [p \in Sources |-> ""]

IdleFrame ==
    [pc |-> "idle", query |-> "", page |-> 1, per_page |-> 20,
     filters |-> [wait_for_all_sources |-> FALSE, enabled_sources |-> {}],
     futures |-> {}, pending |-> {}, all_results |-> << >>,
     source_warnings |-> NoWarnings, search_started |-> 0, deadline |-> 0,
     search_timeout_seconds |-> 0, fast_return_triggered |-> FALSE,
     completed |-> 0, ret |-> << >>, events |-> << >>, cached_by |-> 0,
     probed |-> {}]

\* the frames of search() that are still running
Running(s) == srch[s].pc \in {"wait", "final"}
Over(s) == srch[s].pc \in {"returned", "raised"}

NoOut == [results |-> << >>, warning |-> "", attempts |-> 0, ok |-> FALSE]
\* `entered` counts the entries into source.search, as the providers of the
\* tests count them in self.calls
NoTask == [st |-> "none", attempt |-> 0, attempts |-> 0, last_warning |-> "",
           entered |-> 0, out |-> NoOut]

Started(query, page) == [type |-> "search_started", query |-> query, page |-> page]
Progress(completed, total, source, warning) ==
    [type |-> "search_progress", completed |-> completed, total |-> total,
     source |-> source, warning |-> warning]
Completed(count, total, warnings) ==
    [type |-> "search_completed", count |-> count, total |-> total,
     source_warnings |-> warnings]

\* job["sources"][name]
NoJobSource == [status |-> "", warning |-> "", attempts |-> 0]
\* job["result"]; page and perPage stay as they were requested
NoResult == [groups |-> << >>, count |-> 0, hasMore |-> FALSE]

\* No job yet.  pc is where the runner thread stands; the fields after
\* source_timeout_seconds are the runner's locals.  all_results is the list of
\* the runner with its objects as they are now, returned the same results as
\* the providers returned them.
NoJob ==
    [pc |-> "none", status |-> "", phase |-> "", partial |-> FALSE,
     cancelRequested |-> FALSE, message |-> "",
     totalSources |-> 0, completedSources |-> 0,
     sources |-> [p \in Sources |-> NoJobSource], result |-> NoResult,
     page |-> 1, per_page |-> 20, include_media |-> FALSE, source_timeout_seconds |-> 0,
     started_mono |-> 0, enabled |-> << >>, next |-> 1, futures |-> {}, pending |-> {},
     all_results |-> << >>, returned |-> << >>, deadline |-> 0]

\* nothing reloaded yet.  hooks counts the calls of each provider's
\* reload_from_settings, emitted the SOURCES_RELOADED events; enabled_dict is
\* the argument of the last call, begun the number of search() calls that had
\* begun when it was made
NoReload ==
    [hooks |-> [p \in Sources |-> 0], emitted |-> 0, enabled_dict |-> << >>,
     begun |-> 0]

\* nothing computed yet.  unique is _deduplicate(xs), again is
\* _deduplicate(unique); permuted is a permutation of unique, unified and
\* unified_permuted are _aggregate_results of unique and of permuted
NoPure ==
    [pc |-> "input", unique |-> << >>, again |-> << >>, permuted |-> << >>,
     unified |-> [raised |-> FALSE, results |-> << >>],
     unified_permuted |-> [raised |-> FALSE, results |-> << >>]]

\* the ids of the download jobs, in the order queue_download creates them
DownloadIds == 1..MaxDownloads

\* JobStatus
JobStatus ==
    {"queued", "resolving", "downloading", "paused", "completed", "cancelled", "error"}

\* A DownloadJob as its dataclass builds it; kind is "magnet" for a job with
\* a magnet and "direct" for one with a direct_url only; kind "" stands for
\* an id that queue_download has not created yet.
NewDownload(kind) ==
    [kind |-> kind, status |-> "queued", progress |-> 0, downloaded_bytes |-> 0,
     total_bytes |-> 0, pause |-> FALSE, cancel |-> FALSE, error |-> FALSE,
     status_detail |-> "",
     title |-> IF kind = "" THEN << >> ELSE << "title" >>,
     output_path |-> IF kind = "" THEN "" ELSE "downloads/file",
     magnet |-> IF kind = "magnet" THEN "magnet:?xt=urn:btih:1" ELSE "",
     direct_url |-> IF kind = "direct" THEN "http://host/file" ELSE ""]

\* no retry_download call was made; otherwise the number of calls, the
\* job_id of the last one and what it returned (0: None)
NoRetry == [calls |-> 0, job_id |-> 0, returned |-> 0]

\* The _process_job thread of a job: pc is where it stands, sem the
\* semaphore it waits for or holds, body the chunks the response has yet to
\* deliver, backend the backend whose download() it called ("": none yet)
\* and available what is_available() of the selected backend told it.
NoWorker == [pc |-> "none", sem |-> 0, body |-> 0, backend |-> "", available |-> TRUE]

\* no pause_download or resume_download call is under way
NoCall == [op |-> "", job_id |-> 0]

\* The state after DownloadManager(rd_client, event_bus, max_concurrent = 1):
\* sems holds the free permits of every Semaphore made so far, semaphore is
\* the index of self._semaphore, changes counts the set_max_concurrent calls.
\* The run queues `downloads` jobs, and `responses` are the responses the
\* server may give them; selected_backend is what _detect_selected_backend
\* found in the settings.  deleted holds the ids delete_download has taken out
\* of self.jobs, deleted_events counts the DOWNLOAD_DELETED events, and absent
\* the control calls that found no job under their id.
DownloadsWith(downloads, responses, selected_backend) ==
    /\ dm = [max_concurrent |-> 1, semaphore |-> 1, sems |-> << 1 >>, changes |-> 0,
             downloads |-> downloads, responses |-> responses, retry |-> NoRetry,
             selected_backend |-> selected_backend,
             deleted |-> {}, deleted_events |-> 0, absent |-> 0]
    /\ dj = [j \in DownloadIds |-> NewDownload("")]
    /\ dw = [j \in DownloadIds |-> NoWorker]
    /\ ctl = NoCall
    /\ dev = [j \in DownloadIds |-> {}]

\* the native backend is the selected one
Downloads(downloads, responses) == DownloadsWith(downloads, responses, "native")

NoDownloads == Downloads(0, {})

\* search_jobs = {}: no search job was ever created.  jobs is the dict in its
\* order of insertion, each job with the number of the createJob call that
\* made it and its timings.startedAtMono (0.0 until its runner begins);
\* clock is monotonic(), in seconds; calls counts the createJob calls of the
\* behaviour
NoTable == [jobs |-> << >>, made |-> 0, calls |-> 0, clock |-> 1]

\* SessionContext(): the default of the context variable current_session
DefaultSession == "default"

\* the threads whose context the model follows: the one that serves the
\* requests, a worker of SourceManager._executor, the runner of a search
\* job, a worker of the job's executor and a _process_job thread
Threads == {"request", "search_worker", "job_runner", "job_worker", "download_worker"}

\* No request was served.  session is current_session in each thread, tasks
\* the calls handed to background threads (for whom, with which snapshot),
\* ran the provider searches and download steps done (for whom, under which
\* context), served the number of requests so far
NoSessions ==
    [session |-> [t \in Threads |-> DefaultSession], tasks |-> {}, ran |-> {},
     served |-> 0]

\* no list was made
\* the queries of the cache-list model
HeapQueries == {"q1", "q2"}

\* No list was made.  lists are the list objects, each known by its place;
\* cache is the list object an entry of SearchCache holds (0: no entry),
\* stored the rows the entry was given; got is what the last call of
\* SourceManager.search returned: which object, for which query, whether from
\* the cache, and its rows at the return
NoHeap ==
    [lists |-> << >>,
     cache |-> [q \in HeapQueries |-> 0],
     stored |-> [q \in HeapQueries |-> << >>],
     got |-> [list |-> 0, query |-> "", hit |-> FALSE, rows |-> << >>]]

\* the event types of the bus model (class Events)
BusEvents == {"search_completed", "download_error"}

\* the callbacks of the bus model
Handlers == {"h1", "h2", "h3"}

\* EventBus.__init__: nobody is subscribed.  op is the call made last, last
\* what the last emit did: for which event, which callbacks raised, which
\* callbacks it called, in order, and whether an exception left emit
NoBus ==
    [subscribers |-> [e \in BusEvents |-> << >>],
     op |-> "",
     last |-> [event |-> "", raising |-> {}, called |-> << >>, propagated |-> FALSE],
     ops |-> 0]

\* No download of the resume model: nothing is asked for.  payload is the
\* bytes of the resource, file the bytes at job.output_path, range the first
\* byte asked for in the Range header (-1: no header), status the status of
\* the response, body the bytes of the response not yet read
NoFile ==
    [pc |-> "none", payload |-> << >>, file |-> << >>, range |-> -1,
     status |-> 0, body |-> << >>]

\* the models of the event bus, the job table, the sessions, the heap and the
\* output file at rest
NoEarlier ==
    /\ sj = NoTable
    /\ ss = NoSessions
    /\ hp = NoHeap
    /\ bus = NoBus
    /\ fs = NoFile

\* the _safe_search calls that run on one provider instance at a time
Calls == 1..2

\* a call of _safe_search that was not made: `t` is the state of its retry
\* loop, `o` what its source.search did, `out` what it returned
NoSafeSearch == [pc |-> "none", t |-> NoTask,
           o |-> [raises |-> FALSE, results |-> << >>, last_error |-> ""],
           out |-> NoOut]

\* no _safe_search call is made on the provider instance
NoProvider == [name |-> "", last_error |-> "", call |-> [c \in Calls |-> NoSafeSearch]]

\* the queries of the HTTPSource model; the template and the page are fixed
HttpQueries == {"acme", "other"}

\* no entry under a key of HTTPSource._cache
NoPayload == [ts |-> -1, data |-> << >>]

\* An HTTPSource with one URL template, nothing searched: time is time.time(),
\* queries counts the calls of _query_single_source, refresh_pool holds the
\* _refresh_single_source tasks submitted and not yet run, and last is the
\* last search() call: its query, what _cache_get found, the results of the
\* template and whether a refresh was submitted
NoHttp ==
    [http_cache_ttl_seconds |-> 300, http_allow_stale_cache |-> TRUE,
     http_background_refresh |-> TRUE,
     cache |-> [q \in HttpQueries |-> NoPayload], time |-> 0, queries |-> 0,
     refresh_pool |-> << >>, searches |-> 0,
     last |-> [query |-> "", found |-> "", results |-> << >>, submitted |-> FALSE]]

\* the threads that work for one profile, and the key each of them sets
SettingsThreads == 1..2
SettingsKeys == {"source_max_retries", "http_cache_ttl_seconds"}
KeyOf(thread) == IF thread = 1 THEN "source_max_retries" ELSE "http_cache_ttl_seconds"

\* DEFAULT_SETTINGS, 0 standing for the default of a key
DEFAULT_SETTINGS == [k \in SettingsKeys |-> 0]

\* profile_settings_cache of a thread that has none
NoSettingsCache == << >>

\* The row of the profile in the store and the threads, no settings read or
\* written: cache is the thread's profile_settings_cache, pc = "set" while
\* the thread is inside set() with `value`, and wrote is the value its last
\* set() stored (0: it has stored none)
NoSettings ==
    [persisted |-> DEFAULT_SETTINGS,
     thread |-> [t \in SettingsThreads |->
                   [cache |-> NoSettingsCache, pc |-> "idle", value |-> 0, wrote |-> 0]],
     calls |-> 0]

NoLater ==
    /\ pe = NoProvider
    /\ hc = NoHttp
    /\ stg = NoSettings

NoExtras ==
    /\ sj = NoTable
    /\ ss = NoSessions
    /\ hp = NoHeap
    /\ bus = NoBus
    /\ fs = NoFile
    /\ NoLater

TypeOK ==
    /\ limit \in 0..MaxSearches
    /\ now \in 0..(MaxTicks * TickSeconds)
    /\ enabled \in [Sources -> BOOLEAN]
    /\ \A p \in Sources : health[p].circuit_open \in BOOLEAN
    /\ \A s \in SearchIds :
         srch[s].pc \in {"idle", "wait", "final", "returned", "raised"}
    /\ \A s \in Callers, p \in Sources :
         task[s][p].st \in {"none", "queued", "calling", "done"}
    /\ job.pc \in {"none", "init", "submit", "wait", "final", "over"}
    /\ job.status \in {"", "running", "cancelling", "done", "cancelled", "error"}

\* the state after SourceManager(event_bus, reliability) and register(...)
Start(settings, on, searches) ==
    /\ cfg \in settings
    /\ limit = searches
    /\ now = 0
    /\ enabled \in on
    /\ health = [p \in Sources |-> NewHealth]
    /\ cache = << >>
    /\ srch = [s \in SearchIds |-> IdleFrame]
    /\ task = [s \in Callers |-> [p \in Sources |-> NoTask]]
    /\ job = NoJob
    /\ rl = NoReload
    /\ xs = << >>
    /\ px = NoPure
    /\ NoDownloads
    /\ NoExtras

----------------------------------------------------------------------------
(* SourceManager.search, lines 210-270: up to the submission of the tasks *)

\* get_enabled_sources, narrowed by filters["enabled_sources"] when it is set
EnabledSources(filters) ==
    LET on == { p \in Sources : enabled[p] } IN
    IF filters.enabled_sources # {} THEN on \cap filters.enabled_sources ELSE on

SearchTimeout == Max(1, cfg.search_timeout_seconds)

\* What the model keeps of a search() call that is over, once the next call
\* begins: how it ended and what it returned.
Kept(f) == IF f.pc \in {"returned", "raised"}
             THEN [IdleFrame EXCEPT !.pc = f.pc, !.ret = f.ret]
             ELSE f

SearchStart(s, query, page, per_page, filters) ==
    LET f0 == [IdleFrame EXCEPT !.query = query, !.page = page, !.per_page = per_page,
                                !.filters = filters]
        got == CacheGet(cache, MakeKey(query, page, filters), now)
        selected == EnabledSources(filters)
        block == [p \in Sources |-> SourceBlockReason(health[p], now)]
        blocked == { p \in selected : block[p].reason # "" }
        futures == selected \ blocked
        warnings == [p \in Sources |-> IF p \in blocked THEN block[p].reason ELSE ""]
        started == << Started(query, page) >>
        \* the providers whose cooldown has run out: this search is their probe
        probed == { p \in selected : health[p].circuit_open /\ block[p].reason = "" }
        kept == [r \in SearchIds |-> Kept(srch[r])]
    IN
    /\ srch[s].pc = "idle"
    /\ s <= limit
    /\ \A r \in SearchIds : r < s => srch[r].pc # "idle"
    /\ Cardinality({ r \in SearchIds : Running(r) }) < MaxActive
    /\ IF Strip(query) = ""
         THEN /\ srch' = [kept EXCEPT ![s] = [f0 EXCEPT !.pc = "returned"]]
              /\ UNCHANGED << cache, health, task >>
       ELSE IF got.hit
         THEN /\ cache' = got.cache
              /\ srch' = [kept EXCEPT ![s] = [f0 EXCEPT !.pc = "returned",
                                                         !.ret = got.results,
                                                         !.cached_by = got.by]]
              /\ UNCHANGED << health, task >>
       ELSE IF selected = {}
         THEN /\ cache' = got.cache
              /\ srch' = [kept EXCEPT ![s] =
                            [f0 EXCEPT !.pc = "returned",
                                       !.events = Append(started, Completed(0, 0, NoWarnings))]]
              /\ UNCHANGED << health, task >>
       ELSE /\ cache' = got.cache
            /\ health' = [p \in Sources |-> IF p \in selected THEN block[p].h ELSE health[p]]
            /\ IF futures = {}
                 THEN /\ srch' = [kept EXCEPT ![s] =
                            [f0 EXCEPT !.pc = "returned",
                                       !.source_warnings = warnings,
                                       !.events = Append(started, Completed(0, 0, warnings))]]
                      /\ UNCHANGED task
                 ELSE /\ srch' = [kept EXCEPT ![s] =
                            [f0 EXCEPT !.pc = "wait",
                                       !.source_warnings = warnings,
                                       !.futures = futures,
                                       !.pending = futures,
                                       !.search_started = now,
                                       !.search_timeout_seconds = SearchTimeout,
                                       !.deadline = now + SearchTimeout,
                                       !.events = started,
                                       !.probed = probed]]
                      /\ task' = [task EXCEPT ![s] =
                            [p \in Sources |-> IF p \in futures
                                                 THEN [NoTask EXCEPT !.st = "queued"]
                                                 ELSE NoTask]]
    /\ UNCHANGED << aside, job, cfg, limit, now, enabled >>

Search(s) ==
    \E query \in Queries, filters \in FilterSet :
        SearchStart(s, query, 1, 20, filters)

----------------------------------------------------------------------------
(* _safe_search, one task per submitted provider *)

\* _is_nonfatal_empty_warning
IsNonfatalEmptyWarning(source_name, warning) ==
    /\ warning # ""
    /\ source_name = "opendirectory"
    /\ warning = ErrNoOdLinks

\* the task after it has returned `out`: the future is done, unless nobody
\* holds the future any more
Finished(s, t, out) ==
    IF (s = JobId /\ job.pc = "over") \/ (s # JobId /\ Over(s)) THEN NoTask
    ELSE [NoTask EXCEPT !.st = "done", !.attempts = t.attempts, !.entered = t.entered,
                        !.out = out]

\* lines 398-402: the next round of the retry loop enters source.search
SafeSearchCall(s, p) ==
    /\ task[s][p].st = "queued"
    /\ task[s][p].attempt < cfg.max_retries + 1
    /\ task' = [task EXCEPT ![s][p].st = "calling", ![s][p].attempts = @ + 1,
                            ![s][p].entered = @ + 1]
    /\ UNCHANGED << aside, job, cfg, limit, now, enabled, health, cache, srch >>

\* SafeSearchStep reporting the index of the round for the number of attempts
SafeSearchStepReportsIndex(t, p, o, warning) ==
    LET fail(msg) ==
          IF t.attempt < cfg.max_retries
            THEN [done |-> FALSE, last_warning |-> msg, out |-> NoOut]
            ELSE [done |-> TRUE, last_warning |-> msg,
                  out |-> [results |-> << >>, warning |-> msg,
                           attempts |-> t.attempt, ok |-> FALSE]]
    IN
    IF o.raises THEN fail(o.last_error)
    ELSE IF warning # "" /\ o.results = << >>
      THEN IF IsNonfatalEmptyWarning(Lower(p), warning)
             THEN [done |-> TRUE, last_warning |-> t.last_warning,
                   out |-> [results |-> << >>, warning |-> "",
                            attempts |-> t.attempt, ok |-> TRUE]]
             ELSE fail(warning)
      ELSE [done |-> TRUE, last_warning |-> t.last_warning,
            out |-> [results |-> o.results, warning |-> warning,
                     attempts |-> t.attempt, ok |-> TRUE]]

\* what _safe_search does with the outcome o of its call: lines 402-423
SafeSearchStep(t, p, o, warning) ==
    LET fail(msg) ==
          IF t.attempt < cfg.max_retries
            THEN [done |-> FALSE, last_warning |-> msg, out |-> NoOut]
            ELSE [done |-> TRUE, last_warning |-> msg,
                  out |-> [results |-> << >>, warning |-> msg,
                           attempts |-> t.attempts, ok |-> FALSE]]
    IN
    IF o.raises THEN fail(o.last_error)
    ELSE IF warning # "" /\ o.results = << >>
      THEN IF IsNonfatalEmptyWarning(Lower(p), warning)
             THEN [done |-> TRUE, last_warning |-> t.last_warning,
                   out |-> [results |-> << >>, warning |-> "",
                            attempts |-> t.attempts, ok |-> TRUE]]
             ELSE fail(warning)
      ELSE [done |-> TRUE, last_warning |-> t.last_warning,
            out |-> [results |-> o.results, warning |-> warning,
                     attempts |-> t.attempts, ok |-> TRUE]]

\* source.search returns or raises, and _safe_search returns or goes round again
SafeSearchReturn(s, p) ==
    /\ task[s][p].st = "calling"
    /\ \E o \in ProviderOutcomes(p) :
         LET step == SafeSearchStep(task[s][p], p, o, o.last_error)
         IN task' = [task EXCEPT ![s][p] =
                          IF step.done THEN Finished(s, task[s][p], step.out)
                          ELSE [@ EXCEPT !.st = "queued", !.attempt = @ + 1,
                                         !.last_warning = step.last_warning]]
    /\ UNCHANGED << aside, job, cfg, limit, now, enabled, health, cache, srch >>

----------------------------------------------------------------------------
(* SourceManager.search, lines 272-330: the collection loop *)

\* lines 285-316 for the futures in `order`
RECURSIVE CollectDone(_, _, _)
CollectDone(frame, hl, order) ==
    IF order = << >> THEN [frame |-> frame, health |-> hl]
    ELSE
      LET p == Head(order)
          out == task[frame.id][p].out
          warnings == IF out.warning # ""
                        THEN [frame.f.source_warnings EXCEPT ![p] = out.warning]
                        ELSE frame.f.source_warnings
          completed == frame.f.completed + 1
          f1 == [frame.f EXCEPT
                   !.all_results = @ \o out.results,
                   !.source_warnings = warnings,
                   !.completed = completed,
                   !.events = Append(@, Progress(completed, Cardinality(frame.f.futures),
                                                 p, warnings[p]))]
      IN CollectDone([id |-> frame.id, f |-> f1],
                     [hl EXCEPT ![p] = RecordSourceOutcome(@, out.ok, out.warning,
                                                           out.attempts, now)],
                     Tail(order))

\* FastReturn without the test of wait_for_all_sources
FastReturnDespiteWaitForAll(f, pending, t) ==
    LET elapsed == t - f.search_started
        http_pending == \E name \in pending : Lower(name) = "http"
        od_pending == \E name \in pending : Lower(name) = "opendirectory"
    IN /\ pending # {}
       /\ Len(f.all_results) >= Max(1, cfg.early_return_min_results)
       /\ elapsed >= Max(0, cfg.early_return_seconds)
       /\ ~(cfg.prefer_http_completion /\ (http_pending \/ od_pending))

\* FastReturn with the elapsed time compared strictly
FastReturnStrictlyLater(f, pending, t) ==
    LET elapsed == t - f.search_started
        http_pending == \E name \in pending : Lower(name) = "http"
        od_pending == \E name \in pending : Lower(name) = "opendirectory"
    IN /\ pending # {}
       /\ Len(f.all_results) >= Max(1, cfg.early_return_min_results)
       /\ elapsed > Max(0, cfg.early_return_seconds)
       /\ ~f.filters.wait_for_all_sources
       /\ ~(cfg.prefer_http_completion /\ (http_pending \/ od_pending))

\* lines 318-328: the fast-return condition
FastReturn(f, pending, t) ==
    LET elapsed == t - f.search_started
        http_pending == \E name \in pending : Lower(name) = "http"
        od_pending == \E name \in pending : Lower(name) = "opendirectory"
    IN /\ pending # {}
       /\ Len(f.all_results) >= Max(1, cfg.early_return_min_results)
       /\ elapsed >= Max(0, cfg.early_return_seconds)
       /\ ~f.filters.wait_for_all_sources
       /\ ~(cfg.prefer_http_completion /\ (http_pending \/ od_pending))

\* LoopEnds without the deadline
LoopEndsWhenAllDone(pending, deadline, t) == pending = {}

\* lines 272-275: the loop ends, `while pending` or the deadline
LoopEnds(pending, deadline, t) == pending = {} \/ t >= deadline

\* wait() returns, lines 278-330, and the loop goes round to the next wait()
\* or ends, lines 272-275: a round takes no time but in wait()
WaitReturn(s) ==
    LET done == { p \in srch[s].pending : task[s][p].st = "done" }
        not_done == srch[s].pending \ done
    IN
    /\ srch[s].pc = "wait"
    /\ \E order \in Orders(done) :
         LET c == CollectDone([id |-> s, f |-> [srch[s] EXCEPT !.pending = not_done]],
                              health, order)
             fast == FastReturn(c.frame.f, not_done, now)
         IN /\ health' = c.health
            /\ srch' = [srch EXCEPT ![s] =
                          [c.frame.f EXCEPT !.fast_return_triggered = fast,
                                            !.pc = IF fast \/ LoopEnds(not_done, c.frame.f.deadline, now)
                                                     THEN "final" ELSE "wait"]]
            /\ task' = [task EXCEPT ![s] =
                          [p \in Sources |-> IF p \in done THEN NoTask ELSE task[s][p]]]
    /\ UNCHANGED << aside, job, cfg, limit, now, enabled, cache >>

----------------------------------------------------------------------------
(* SourceManager.search, lines 332-388: after the loop *)

SkippedMessage(source_name) ==
    source_name \o " skipped for fast results (slow source deferred)."
TimedOutMessage(source_name, seconds) ==
    source_name \o " timed out after " \o ToString(seconds)
        \o "s; results from this source were skipped."

\* lines 332-358 without the call of _record_source_outcome
RECURSIVE CancelPendingUnrecorded(_, _, _)
CancelPendingUnrecorded(f, hl, order) ==
    IF order = << >> THEN [f |-> f, health |-> hl]
    ELSE
      LET p == Head(order)
          timeout_message ==
              IF f.fast_return_triggered THEN SkippedMessage(p)
              ELSE TimedOutMessage(p, f.search_timeout_seconds)
          completed == f.completed + 1
          f1 == [f EXCEPT
                   !.source_warnings[p] = timeout_message,
                   !.completed = completed,
                   !.events = Append(@, Progress(completed, Cardinality(f.futures),
                                                 p, timeout_message))]
      IN CancelPendingUnrecorded(f1, hl, Tail(order))

\* lines 332-358 for the futures in `order`
RECURSIVE CancelPending(_, _, _)
CancelPending(f, hl, order) ==
    IF order = << >> THEN [f |-> f, health |-> hl]
    ELSE
      LET p == Head(order)
          timeout_message ==
              IF f.fast_return_triggered THEN SkippedMessage(p)
              ELSE TimedOutMessage(p, f.search_timeout_seconds)
          completed == f.completed + 1
          f1 == [f EXCEPT
                   !.source_warnings[p] = timeout_message,
                   !.completed = completed,
                   !.events = Append(@, Progress(completed, Cardinality(f.futures),
                                                 p, timeout_message))]
      IN CancelPending(f1,
                       [hl EXCEPT ![p] = RecordSourceOutcome(@, FALSE, timeout_message,
                                                             1, now)],
                       Tail(order))

\* lines 360-388: search call s ends with frame f and the pipeline's `out`
Ended(s, f, out) ==
    IF out.raised
      THEN /\ srch' = [srch EXCEPT ![s] = [f EXCEPT !.pc = "raised", !.pending = {},
                                                   !.all_results = << >>]]
           /\ UNCHANGED cache
      ELSE /\ cache' = CacheSet(cache, MakeKey(f.query, f.page, f.filters),
                                out.paginated, now, s)
           /\ srch' = [srch EXCEPT ![s] =
                         [f EXCEPT !.pc = "returned", !.pending = {},
                                   !.all_results = << >>,
                                   !.ret = out.paginated,
                                   !.events = Append(@,
                                       Completed(Len(out.paginated), out.total,
                                                 f.source_warnings))]]

\* lines 332-388: the pending futures given up, then the pipeline
Finalized(s, c) ==
    /\ health' = c.health
    /\ Ended(s, c.f, Pipeline(c.f.all_results, c.f.page, c.f.per_page, c.f.filters))

\* lines 332-388.  future.cancel() stops a task only while it has not begun
\* to run; `cancelled` are the tasks it stops.
Finalize(s) ==
    /\ srch[s].pc = "final"
    /\ \E order \in Orders(srch[s].pending),
          cancelled \in SUBSET { p \in srch[s].pending :
                                   task[s][p].st = "queued" /\ task[s][p].attempts = 0 } :
         /\ Finalized(s, CancelPending(srch[s], health, order))
         /\ task' = [task EXCEPT ![s] =
                       [p \in Sources |->
                          IF p \in cancelled \/ task[s][p].st = "done"
                            THEN NoTask ELSE task[s][p]]]
    /\ UNCHANGED << aside, job, cfg, limit, now, enabled >>

----------------------------------------------------------------------------
(* The search jobs of pluggy/web/app.py.  The model has one job; the custom  *)
(* link store is empty and the result registry is left out.                  *)

\* _software_score and _media_noise_score for the titles of the model
SoftwareInfo(title) ==
    CASE title = "Acme Synth 2024 v3.1 macOS" -> [software |-> 22, media |-> 0]
      [] OTHER -> [software |-> 0, media |-> 0]

\* _pick_best_link: the link, or raised when c.get meets a candidate that is
\* no dict
PickBestLink(result) ==
    IF \E i \in 1..Len(result.link_candidates) : ~result.link_candidates[i].is_dict
      THEN [raised |-> TRUE, url |-> ""]
      ELSE [raised |-> FALSE,
            url |-> IF result.link_candidates # << >>
                      THEN SortByQuality(result.link_candidates)[1].url
                      ELSE result.magnet]

\* _software_sort_key, negated: sorted(..., reverse = True) is the stable
\* ascending sort by the negated key
SoftwareSortKey(result) ==
    LET si == SoftwareInfo(result.title) IN
    << 0 - (si.software - si.media),
       0 - (IF LinkInfo(PickBestLink(result).url).magnet THEN 4 ELSE 0),
       0 - Max(0, result.seeds),
       0 - result.link_quality,
       0 - Max(0, result.size) >>

RECURSIVE SortSoftware(_)
SortSoftware(results) ==
    IF results = << >> THEN << >>
    ELSE LET sorted == SortSoftware(Tail(results))
             x == Head(results)
             NotBefore(r) == ~TupleLess(SoftwareSortKey(r), SoftwareSortKey(x))
             i == FirstIndex(sorted, NotBefore)
         IN IF i = 0 THEN Append(sorted, x)
            ELSE SubSeq(sorted, 1, i - 1) \o << x >> \o SubSeq(sorted, i, Len(sorted))

\* _software_filter
SoftwareFilter(results, include_media) ==
    LET Keeps(r) == SoftwareInfo(r.title).software > 0 \/ SoftwareInfo(r.title).media < 12
        filtered == IF include_media THEN results ELSE SelectSeq2(results, Keeps)
    IN IF \E i \in 1..Len(filtered) : PickBestLink(filtered[i]).raised
         THEN [raised |-> TRUE, results |-> << >>]
         ELSE [raised |-> FALSE, results |-> SortSoftware(filtered)]

\* what the runner makes of all_results, lines 1272-1288 and 1316-1339:
\* _deduplicate, _aggregate_results, _software_filter, the page and
\* _serialize_search_results, of which the model keeps the ranked results
JobRank(all_results, page, per_page, include_media) ==
    LET unified == AggregateResults(Deduplicate(all_results))
        ranked == SoftwareFilter(unified.results, include_media)
        start_idx == Max(0, (page - 1) * per_page)
        end_idx == start_idx + per_page
        page_results == Slice(ranked.results, start_idx, end_idx)
    IN [raised |-> unified.raised \/ ranked.raised,
        result |-> [groups |-> page_results, count |-> Len(page_results),
                    hasMore |-> end_idx < Len(ranked.results)]]

\* the default source_timeout_seconds of a job in "deep" mode
DeepTimeoutSeconds == 20

\* POST /api/search/jobs, _start_search_job: q is required; the job is
\* registered and its runner thread started
StartSearchJob ==
    /\ job.pc = "none"
    /\ \E q \in Queries :
         IF Strip(q) = ""
           THEN UNCHANGED job
           ELSE job' = [NoJob EXCEPT !.pc = "init", !.status = "running",
                                     !.phase = "init", !.partial = TRUE,
                                     !.source_timeout_seconds =
                                         Max(3, Min(60, DeepTimeoutSeconds))]
    /\ UNCHANGED << aside, cfg, limit, now, enabled, health, cache, srch, task >>

\* runner, lines 1187-1208.  The routing score that orders the providers
\* depends on latencies the model leaves out: any order.
JobRunnerBegin ==
    /\ job.pc = "init"
    /\ \E order \in Orders({ p \in Sources : enabled[p] }) :
         job' = [job EXCEPT
                   !.pc = "submit", !.started_mono = now, !.phase = "querying",
                   !.enabled = order, !.totalSources = Len(order),
                   !.sources = [p \in Sources |->
                                  IF enabled[p]
                                    THEN [NoJobSource EXCEPT !.status = "pending"]
                                    ELSE NoJobSource]]
    /\ UNCHANGED << aside, cfg, limit, now, enabled, health, cache, srch, task >>

\* runner, lines 1211-1245: one round of the submission loop, or its end
\* and the first test of the collection loop, which is entered (wait() is
\* called) when a future is pending, the job is not cancelled and the
\* deadline has not passed
JobSubmit ==
    /\ job.pc = "submit"
    /\ IF job.next > Len(job.enabled) \/ job.cancelRequested
         THEN /\ job' = [job EXCEPT
                           !.pc = IF \/ job.futures = {}
                                     \/ job.cancelRequested
                                     \/ now >= job.started_mono
                                                 + Max(3, job.source_timeout_seconds)
                                    THEN "final" ELSE "wait",
                           !.pending = job.futures,
                           !.deadline = job.started_mono
                                          + Max(3, job.source_timeout_seconds)]
              /\ UNCHANGED << health, task >>
         ELSE LET source_name == job.enabled[job.next]
                  block == SourceBlockReason(health[source_name], now)
              IN /\ health' = [health EXCEPT ![source_name] = block.h]
                 /\ IF block.reason # ""
                      THEN /\ job' = [job EXCEPT
                                        !.sources[source_name].status = "skipped",
                                        !.sources[source_name].warning = block.reason,
                                        !.completedSources = @ + 1,
                                        !.next = @ + 1]
                           /\ UNCHANGED task
                      ELSE /\ job' = [job EXCEPT
                                        !.sources[source_name].status = "running",
                                        !.futures = @ \cup {source_name},
                                        !.next = @ + 1]
                           /\ task' = [task EXCEPT ![JobId][source_name] =
                                          [NoTask EXCEPT !.st = "queued"]]
    /\ UNCHANGED << aside, cfg, limit, now, enabled, cache, srch >>

\* JobNoted counting the provider again when its task had failed
JobNotedCountsFailureTwice(j, source_name, out, attempts) ==
    [j EXCEPT
       !.all_results = @ \o out.results,
       !.returned = @ \o out.results,
       !.sources[source_name] =
           [status |-> IF out.ok THEN "done" ELSE "error",
            warning |-> out.warning, attempts |-> attempts],
       !.completedSources = IF out.ok THEN @ + 1 ELSE @ + 2]

\* runner, lines 1254-1270: the outcome `out` of source_name noted in the job
JobNoted(j, source_name, out, attempts) ==
    [j EXCEPT
       !.all_results = @ \o out.results,
       !.returned = @ \o out.results,
       !.sources[source_name] =
           [status |-> IF out.ok THEN "done" ELSE "error",
            warning |-> out.warning, attempts |-> attempts],
       !.completedSources = @ + 1]

\* runner, lines 1248-1293 for the futures in `order`, up to the first that
\* makes the ranking raise
RECURSIVE JobCollect(_, _, _)

\* lines 1272-1293: the partial result
JobRanked(j1, hl1, ranked, rest) ==
    IF ranked.raised
      THEN [job |-> j1, health |-> hl1, raised |-> TRUE]
      ELSE JobCollect([j1 EXCEPT !.result = ranked.result, !.phase = "querying",
                                 !.partial = TRUE,
                                 !.all_results = AggregatedInPlace(@)],
                      hl1, rest)

\* lines 1249-1270 for one future
JobCollectOne(j, hl, source_name, out, attempts, rest) ==
    JobRanked(JobNoted(j, source_name, out, attempts),
              [hl EXCEPT ![source_name] =
                  RecordSourceOutcome(@, out.ok, out.warning, attempts, now)],
              JobRank(j.all_results \o out.results, j.page, j.per_page, j.include_media),
              rest)

JobCollect(j, hl, order) ==
    IF order = << >> THEN [job |-> j, health |-> hl, raised |-> FALSE]
    ELSE JobCollectOne(j, hl, Head(order), task[JobId][Head(order)].out,
                       Max(1, task[JobId][Head(order)].out.attempts), Tail(order))

\* runner, lines 1347-1352: the except clause
JobFailed(j) ==
    [j EXCEPT !.pc = "over", !.status = "error", !.phase = "done",
              !.message = "error", !.pending = {}, !.all_results = << >>]

\* the tasks of the job once the executor is shut down with cancel_futures:
\* those of `gone` are done with or never begin
JobTasksWithout(gone) ==
    [task EXCEPT ![JobId] =
        [p \in Sources |-> IF p \in gone THEN NoTask ELSE task[JobId][p]]]

\* the tasks of the job that have not begun to run
JobUnstarted ==
    { p \in Sources : task[JobId][p].st = "queued" /\ task[JobId][p].attempts = 0 }

\* runner, lines 1240-1293: wait() returns and the loop goes round or ends
JobWaitReturn ==
    LET done == { p \in job.pending : task[JobId][p].st = "done" }
        not_done == job.pending \ done
    IN
    /\ job.pc = "wait"
    /\ \E order \in Orders(done) :
         LET c == JobCollect([job EXCEPT !.pending = not_done], health, order)
         IN /\ health' = c.health
            /\ IF c.raised
                 THEN /\ job' = JobFailed(c.job)
                      /\ \E cancelled \in SUBSET JobUnstarted :
                           task' = JobTasksWithout(done \cup cancelled)
                 ELSE /\ job' = [c.job EXCEPT !.pc =
                                   IF not_done = {} \/ job.cancelRequested
                                        \/ now >= job.deadline
                                     THEN "final" ELSE "wait"]
                      /\ task' = JobTasksWithout(done)
    /\ UNCHANGED << aside, cfg, limit, now, enabled, cache, srch >>

\* runner, lines 1295-1310 for the futures in `order`
RECURSIVE JobCancelPending(_, _)
JobCancelPending(j, order) ==
    IF order = << >> THEN j
    ELSE
      LET source_name == Head(order)
          st == j.sources[source_name]
      IN IF st.status \in {"done", "error"}
           THEN JobCancelPending(j, Tail(order))
           ELSE JobCancelPending(
                  [j EXCEPT
                     !.sources[source_name].status =
                         IF j.cancelRequested THEN "cancelled" ELSE "timeout",
                     !.sources[source_name].warning =
                         IF j.cancelRequested THEN "Cancelled by user."
                         ELSE "Timed out after " \o ToString(j.source_timeout_seconds)
                                \o "s.",
                     !.completedSources = @ + 1],
                  Tail(order))

\* runner, lines 1312-1352: the job ranked, or failed in the ranking
JobEnded(j, ranked) ==
    IF ranked.raised
      THEN JobFailed([j EXCEPT !.phase = "ranking"])
      ELSE [j EXCEPT !.pc = "over", !.result = ranked.result,
                     !.status = IF j.cancelRequested THEN "cancelled" ELSE "done",
                     !.phase = "done", !.partial = FALSE,
                     !.pending = {}, !.all_results = << >>]

JobRankAll(j) == JobEnded(j, JobRank(j.all_results, j.page, j.per_page, j.include_media))

\* runner, lines 1295-1359: after the loop
JobFinish ==
    /\ job.pc = "final"
    /\ \E order \in Orders(job.pending), cancelled \in SUBSET JobUnstarted :
         /\ task' = JobTasksWithout(cancelled
                                    \cup { p \in Sources : task[JobId][p].st = "done" })
         /\ job' = JobRankAll(JobCancelPending(job, order))
    /\ UNCHANGED << aside, cfg, limit, now, enabled, health, cache, srch >>

\* POST /api/search/jobs/{job_id}/cancel
CancelSearchJob ==
    /\ job.pc # "none"
    /\ job' = [job EXCEPT !.cancelRequested = TRUE, !.status = "cancelling",
                          !.message = "Cancelling"]
    /\ UNCHANGED << aside, cfg, limit, now, enabled, health, cache, srch, task >>

----------------------------------------------------------------------------
(* reload_sources and the clock *)

\* the providers in the order of SourceManager._sources (a dict: the order
\* of registration)
Registered == << "PirateBay", "OpenDirectory", "Prowlarr" >>

\* reload_sources, lines 181-183: names that are not registered are passed over
ReloadedEnabled(on, enabled_dict) ==
    [p \in DOMAIN on |-> IF p \in DOMAIN enabled_dict THEN enabled_dict[p] ELSE on[p]]

\* reload_sources, lines 184-190: the providers whose hook is called, when
\* the hooks of `raises` raise
ReloadHooks(order, raises) == { order[j] : j \in 1..Len(order) }

\* reload_sources(enabled_dict)
ReloadSources(enabled_dict, raises) ==
    /\ rl.emitted < MaxReloads
    /\ enabled' = ReloadedEnabled(enabled, enabled_dict)
    /\ cache' = << >>
    /\ rl' = [hooks |-> [p \in Sources |->
                           IF p \in ReloadHooks(Registered, raises)
                             THEN rl.hooks[p] + 1 ELSE rl.hooks[p]],
              emitted |-> rl.emitted + 1,
              enabled_dict |-> enabled_dict,
              begun |-> Cardinality({ s \in SearchIds : srch[s].pc # "idle" })]
    /\ UNCHANGED << pure_vars, download_vars, extra_vars, job, cfg, limit, now, health,
                    srch, task >>

\* the maps the model draws: "Ghost" is not registered
ReloadMaps ==
    { << >>, [n \in {"PirateBay", "Ghost"} |-> n = "Ghost"], [n \in {"PirateBay"} |-> TRUE] }

Reload ==
    \E enabled_dict \in ReloadMaps, raises \in SUBSET {"PirateBay"} :
        ReloadSources(enabled_dict, raises)

Tick ==
    /\ now < MaxTicks * TickSeconds
    /\ now' = now + TickSeconds
    /\ UNCHANGED << aside, job, cfg, limit, enabled, health, cache, srch, task >>

Next ==
    \/ \E s \in SearchIds : Search(s)
    \/ \E s \in Callers, p \in Sources : SafeSearchCall(s, p)
    \/ \E s \in Callers, p \in Sources : SafeSearchReturn(s, p)
    \/ \E s \in SearchIds : WaitReturn(s)
    \/ \E s \in SearchIds : Finalize(s)
    \/ Tick

----------------------------------------------------------------------------
(* The pipeline's functions applied to lists of results: _deduplicate twice *)
(* over, then _aggregate_results on the deduplicated list and on a          *)
(* permutation of it.                                                       *)

\* The results the lists are drawn from: three of one infohash (more seeds,
\* equal seeds), two links that differ in case only, a result without a link
\* (its title is its identity), three titles whose stems overlap in pairs,
\* and a result with neither infohash, link nor title.
ResultPool ==
    { MkResult("Acme Synth 2024 v3.1", MagnetA, 100, 5, 1, "PirateBay", HashA),
      MkResult("ACME Synth 2024 v3.1", MagnetA, 100, 25, 3, "Prowlarr", HashA),
      MkResult("Acme Synth 2024 v3.1", MagnetA, 100, 5, 1, "OpenDirectory", HashA),
      MkResult("Acme Synth 2024 v3.1 macOS", "https://mega.nz/file/abc", 0, 0, 0,
               "OpenDirectory", ""),
      MkResult("Acme Synth 2024 v3.1 macOS", "HTTPS://MEGA.NZ/file/abc", 0, 0, 0,
               "Prowlarr", ""),
      MkResult("Alpha Beta 2024", "", 0, 0, 0, "PirateBay", ""),
      MkResult("Alpha Beta Gamma 2024", "http://h/b", 0, 0, 0, "OpenDirectory", ""),
      MkResult("Beta Gamma Delta 2024", "http://h/c", 0, 0, 0, "Prowlarr", ""),
      MkResult("", "", 0, 0, 0, "PirateBay", "") }

\* the lists of at most MaxLen results
ResultLists == UNION { [1..n -> ResultPool] : n \in 0..MaxLen }

\* the permutations of a list
PermutationsOf(seq) ==
    { [i \in 1..Len(seq) |-> seq[f[i]]] :
        f \in { g \in [1..Len(seq) -> 1..Len(seq)] :
                  \A i, j \in 1..Len(seq) : g[i] = g[j] => i = j } }

\* unique = self._deduplicate(all_results)
Dedupe ==
    /\ px.pc = "input"
    /\ px' = [px EXCEPT !.pc = "unique", !.unique = Deduplicate(xs)]
    /\ UNCHANGED << xs, rl, download_vars, search_vars, extra_vars >>

\* _deduplicate applied to its own output
DedupeAgain ==
    /\ px.pc = "unique"
    /\ px' = [px EXCEPT !.pc = "again", !.again = Deduplicate(px.unique)]
    /\ UNCHANGED << xs, rl, download_vars, search_vars, extra_vars >>

\* unified = self._aggregate_results(unique), and the same of a permutation
Aggregate ==
    /\ px.pc = "again"
    /\ \E permuted \in PermutationsOf(px.unique) :
         px' = [px EXCEPT !.pc = "unified",
                          !.permuted = permuted,
                          !.unified = AggregateResults(px.unique),
                          !.unified_permuted = AggregateResults(permuted)]
    /\ UNCHANGED << xs, rl, download_vars, search_vars, extra_vars >>

----------------------------------------------------------------------------
(* The DownloadManager of pluggy/core/download_manager.py, the DownloadJob  *)
(* of pluggy/models/download_job.py and NativeRequestsBackend.download.     *)
(* Bytes are counted in chunks of 8192 bytes, the chunk_size of             *)
(* iter_content; Aria2Backend.download is one step.  The status messages of *)
(* the RealDebrid client (_status_update) are left out.                     *)

\* the job ids queue_download has created, deleted or not
EverQueued == { j \in DownloadIds : dj[j].kind # "" }

\* the keys of self.jobs: the job ids queue_download has created and
\* delete_download has not removed
Queued == { j \in DownloadIds : dj[j].kind # "" /\ j \notin dm.deleted }

Emit(j, event) == dev' = [dev EXCEPT ![j] = @ \cup {event}]

\* queue_download: the job joins self.jobs, DOWNLOAD_QUEUED is emitted and
\* the thread of _process_job starts; it reaches `with self._semaphore`
QueueDownload(kind) ==
    \E j \in DownloadIds :
        /\ j <= dm.downloads
        /\ dj[j].kind = ""
        /\ \A i \in DownloadIds : i < j => dj[i].kind # ""
        /\ dj' = [dj EXCEPT ![j] = NewDownload(kind)]
        /\ dw' = [dw EXCEPT ![j] = [NoWorker EXCEPT !.pc = "start", !.sem = dm.semaphore]]
        /\ Emit(j, "download_queued")
        /\ UNCHANGED << dm, ctl, beside >>

\* the semaphore the thread of job j holds is released
Released(j) == [dm EXCEPT !.sems[dw[j].sem] = @ + 1]

\* _process_job, lines 142-150: an exception reaches the except clause, and
\* the with statement is left
Fail(j) ==
    /\ dj' = [dj EXCEPT ![j].status = "error", ![j].error = TRUE,
                        ![j].status_detail = ""]
    /\ dw' = [dw EXCEPT ![j].pc = "done"]
    /\ dm' = Released(j)
    /\ Emit(j, "download_error")

\* _process_job, line 93: the thread acquires the semaphore it found
Acquire(j) ==
    /\ dw[j].pc = "start"
    /\ dm.sems[dw[j].sem] > 0
    /\ dm' = [dm EXCEPT !.sems[dw[j].sem] = @ - 1]
    /\ dw' = [dw EXCEPT ![j].pc = "entered"]
    /\ UNCHANGED << dj, ctl, dev, beside >>

\* _process_job, lines 100-114: a magnet needs an authenticated RealDebrid
\* client and is resolved; a direct URL is taken as it is
Prepare(j) ==
    /\ dw[j].pc = "entered"
    /\ IF dj[j].kind = "magnet"
         THEN \E is_authenticated \in BOOLEAN :
                IF is_authenticated
                  THEN /\ dj' = [dj EXCEPT ![j].status = "resolving",
                                           ![j].status_detail = "Preparing magnet..."]
                       /\ dw' = [dw EXCEPT ![j].pc = "resolving"]
                       /\ Emit(j, "download_started")
                       /\ UNCHANGED dm
                  ELSE Fail(j)
         ELSE /\ dw' = [dw EXCEPT ![j].pc = "download"]
              /\ UNCHANGED << dm, dj, dev >>
    /\ UNCHANGED << ctl, beside >>

\* _process_job, lines 107-112: resolve_magnet returns URLs, returns none or
\* raises
Resolve(j) ==
    /\ dw[j].pc = "resolving"
    /\ \E urls \in BOOLEAN :
         IF urls
           THEN /\ dw' = [dw EXCEPT ![j].pc = "download"]
                /\ UNCHANGED << dm, dj, dev >>
           ELSE Fail(j)
    /\ UNCHANGED << ctl, beside >>

\* the backends of DownloadManager.__init__
Backends == {"native", "aria2"}

\* is_available() of a backend: True for the native one (the base class),
\* for aria2 whether aria2c is on the path
IsAvailable(backend, aria2c_found) == backend = "native" \/ aria2c_found

\* _download_file calling download() of the selected backend whether it is
\* available or not
ChosenUnchecked(selected, available) == selected

\* _download_file, lines 186-191: the backend whose download() is called
Chosen(selected, available) == IF available THEN selected ELSE "native"

\* line 189
UnavailableDetail(selected) == << selected, "unavailable, using native backend." >>

\* _download_file, lines 184-192, up to the call of backend.download
DownloadFile(j) ==
    /\ dw[j].pc = "download"
    /\ \E aria2c_found \in BOOLEAN :
         LET available == IsAvailable(dm.selected_backend, aria2c_found)
             backend == Chosen(dm.selected_backend, available)
         IN  /\ dj' = [dj EXCEPT ![j].status = "downloading",
                                 ![j].status_detail =
                                     IF available THEN ""
                                     ELSE UnavailableDetail(dm.selected_backend)]
             /\ dw' = [dw EXCEPT ![j].pc = IF backend = "native" THEN "request" ELSE "aria2",
                                 ![j].backend = backend,
                                 ![j].available = available]
             /\ IF available THEN UNCHANGED dev ELSE Emit(j, "download_progress")
    /\ UNCHANGED << dm, ctl, beside >>

\* the sizes the output file may have before the download, the values of the
\* Content-Length header (-1: there is none), in chunks
ExistingSizes == {0, 28}
NoContentLength == 0 - 1
ContentLengths == {NoContentLength, 1, 2, 22}

\* What the server may answer: the file holds downloaded_bytes already, the
\* header announces content_length and `body` chunks are delivered.
Responses ==
    [downloaded_bytes : ExistingSizes, content_length : ContentLengths,
     body : 0..MaxChunks]

\* a fresh download of one chunk, announced
OneChunk == { [downloaded_bytes |-> 0, content_length |-> 1, body |-> 1] }

\* NativeRequestsBackend.download, lines 54-74: the request is sent and the
\* response's headers are read; the response will deliver `body` chunks
Request(j) ==
    /\ dw[j].pc = "request"
    /\ \E raises \in BOOLEAN :
         IF raises THEN Fail(j)
         ELSE \E response \in dm.responses :
                /\ dj' = [dj EXCEPT
                            ![j].total_bytes =
                                IF response.content_length # NoContentLength
                                  THEN response.downloaded_bytes + response.content_length
                                  ELSE 0,
                            ![j].downloaded_bytes = response.downloaded_bytes]
                /\ dw' = [dw EXCEPT ![j].pc = IF response.body = 0 THEN "after" ELSE "chunks",
                                    ![j].body = response.body]
                /\ UNCHANGED << dm, dev >>
    /\ UNCHANGED << ctl, beside >>

\* The pairs (d, t), t <= 64 and d <= 2 t + 1, for which the double
\* (d / t) * 100 lies below the integer d * 100 / t is next to.
FloatShort ==
    { << 23, 20 >>, << 41, 20 >>, << 29, 25 >>, << 46, 40 >>, << 29, 50 >>,
      << 57, 50 >>, << 58, 50 >>, << 69, 60 >> }

\* int((downloaded_bytes / total_bytes) * 100) in double arithmetic
ProgressOfBytes(downloaded_bytes, total_bytes) ==
    IF << downloaded_bytes, total_bytes >> \in FloatShort
      THEN ((downloaded_bytes * 100) \div total_bytes) - 1
      ELSE (downloaded_bytes * 100) \div total_bytes

\* lines 86-90: the chunk is written and counted
Written(download_job) ==
    [download_job EXCEPT !.downloaded_bytes = @ + 1,
                !.progress = IF download_job.total_bytes > 0
                               THEN ProgressOfBytes(download_job.downloaded_bytes + 1, download_job.total_bytes)
                               ELSE @]

\* lines 86-98, then the for statement asks for the next chunk
WriteChunk(j) ==
    /\ dj' = [dj EXCEPT ![j] = Written(@)]
    /\ dw' = [dw EXCEPT ![j].body = @ - 1,
                        ![j].pc = IF dw[j].body = 1 THEN "after" ELSE "chunks"]
    /\ UNCHANGED << dm, dev >>

\* download returns DownloadBackendResult(completed = False)
GiveUp(j) ==
    /\ dw' = [dw EXCEPT ![j].pc = "after"]
    /\ UNCHANGED << dm, dj, dev >>

\* Aria2Backend.download: aria2c is not found after all, or the process ends
\* (with a return code other than 0, or with the file written), or the
\* cancel flag is seen while it runs
Aria2Download(j) ==
    /\ dw[j].pc = "aria2"
    /\ \E outcome \in {"not found", "failed", "written"} :
         IF outcome = "not found" \/ (outcome = "failed" /\ ~dj[j].cancel)
           THEN Fail(j)
           ELSE IF dj[j].cancel
             THEN GiveUp(j)
             ELSE \E response \in dm.responses :
                    /\ dj' = [dj EXCEPT ![j].downloaded_bytes = response.body,
                                        ![j].progress = 100]
                    /\ dw' = [dw EXCEPT ![j].pc = "after"]
                    /\ UNCHANGED << dm, dev >>
    /\ UNCHANGED << ctl, beside >>

\* lines 77-98: one round of the loop over the chunks, up to the sleep of
\* the pause loop; the stream may break
Chunk(j) ==
    /\ dw[j].pc = "chunks"
    /\ \E raises \in BOOLEAN :
         IF raises THEN Fail(j)
         ELSE IF dj[j].cancel THEN GiveUp(j)
         ELSE IF dj[j].pause
           THEN /\ dw' = [dw EXCEPT ![j].pc = "sleep"]
                /\ UNCHANGED << dm, dj, dev >>
           ELSE WriteChunk(j)
    /\ UNCHANGED << ctl, beside >>

\* lines 81-84: after time.sleep(0.1)
PausedPoll(j) ==
    /\ dw[j].pc = "sleep"
    /\ IF dj[j].cancel THEN GiveUp(j)
       ELSE /\ ~dj[j].pause
            /\ WriteChunk(j)
    /\ UNCHANGED << ctl, beside >>

\* _download_file, lines 200-201, and _process_job, line 136: the native
\* backend reports no error; is_cancelled is read
AfterDownload(j) ==
    /\ dw[j].pc = "after"
    /\ IF dj[j].cancel
         THEN /\ dw' = [dw EXCEPT ![j].pc = "done"]
              /\ dm' = Released(j)
         ELSE /\ dw' = [dw EXCEPT ![j].pc = "completing"]
              /\ UNCHANGED dm
    /\ UNCHANGED << dj, ctl, dev, beside >>

\* _process_job, lines 137-140, and the with statement is left
Complete(j) ==
    /\ dw[j].pc = "completing"
    /\ dj' = [dj EXCEPT ![j].status = "completed", ![j].status_detail = ""]
    /\ dw' = [dw EXCEPT ![j].pc = "done"]
    /\ dm' = Released(j)
    /\ Emit(j, "download_completed")
    /\ UNCHANGED << ctl, beside >>

\* DownloadJob.pause without its test of the status
PauseFindsAny(status) == TRUE

\* DownloadJob.pause, line 52
PauseFinds(status) == status = "downloading"

\* DownloadJob.resume, line 58
ResumeFinds(status) == status = "paused"

\* pause_download up to the test of DownloadJob.pause: when the test fails
\* the call ends with DOWNLOAD_PAUSED emitted
PauseBegin(j) ==
    /\ ctl = NoCall
    /\ j \in Queued
    /\ IF PauseFinds(dj[j].status)
         THEN /\ ctl' = [op |-> "pause", job_id |-> j]
              /\ UNCHANGED dev
         ELSE /\ Emit(j, "download_paused")
              /\ UNCHANGED ctl
    /\ dj' = IF PauseFinds(dj[j].status) THEN dj ELSE [dj EXCEPT ![j].status_detail = ""]
    /\ UNCHANGED << dm, dw, beside >>

\* DownloadJob.pause, lines 53-54, and the rest of pause_download
PauseSet(j) ==
    /\ ctl = [op |-> "pause", job_id |-> j]
    /\ dj' = [dj EXCEPT ![j].pause = TRUE, ![j].status = "paused",
                        ![j].status_detail = ""]
    /\ ctl' = NoCall
    /\ Emit(j, "download_paused")
    /\ UNCHANGED << dm, dw, beside >>

\* resume_download up to the test of DownloadJob.resume
ResumeBegin(j) ==
    /\ ctl = NoCall
    /\ j \in Queued
    /\ IF ResumeFinds(dj[j].status)
         THEN /\ ctl' = [op |-> "resume", job_id |-> j]
              /\ UNCHANGED dev
         ELSE /\ Emit(j, "download_resumed")
              /\ UNCHANGED ctl
    /\ dj' = IF ResumeFinds(dj[j].status) THEN dj ELSE [dj EXCEPT ![j].status_detail = ""]
    /\ UNCHANGED << dm, dw, beside >>

\* DownloadJob.resume, lines 59-60, and the rest of resume_download
ResumeSet(j) ==
    /\ ctl = [op |-> "resume", job_id |-> j]
    /\ dj' = [dj EXCEPT ![j].pause = FALSE, ![j].status = "downloading",
                        ![j].status_detail = ""]
    /\ ctl' = NoCall
    /\ Emit(j, "download_resumed")
    /\ UNCHANGED << dm, dw, beside >>

\* cancel_download: DownloadJob.cancel and DOWNLOAD_CANCELLED
CancelDownload(j) ==
    /\ ctl = NoCall
    /\ j \in Queued
    /\ dj' = [dj EXCEPT ![j].cancel = TRUE, ![j].status = "cancelled",
                        ![j].status_detail = ""]
    /\ Emit(j, "download_cancelled")
    /\ UNCHANGED << dm, dw, ctl, beside >>

\* retry_download without its test of the status
RetryFindsAny(status) == TRUE

\* retry_download, line 252
RetryFinds(status) == status \in {"error", "cancelled"}

\* the DownloadJob retry_download has queue_download build from job
RetryOf(download_job) ==
    [NewDownload(download_job.kind) EXCEPT
        !.title = Append(download_job.title, "(retry)"),
        !.output_path = download_job.output_path,
        !.magnet = download_job.magnet,
        !.direct_url = download_job.direct_url]

\* retry_download(job_id): None for an id not in self.jobs and for a job
\* that is neither in error nor cancelled; otherwise queue_download, as in
\* QueueDownload, of a job with the payload of the old one
RetryDownload(j) ==
    /\ ctl = NoCall
    /\ dm.retry.calls < MaxRetries
    /\ IF j \in Queued /\ RetryFinds(dj[j].status)
         THEN \E n \in DownloadIds :
                /\ dj[n].kind = ""
                /\ \A i \in DownloadIds : i < n => dj[i].kind # ""
                /\ dj' = [dj EXCEPT ![n] = RetryOf(dj[j])]
                /\ dw' = [dw EXCEPT ![n] = [NoWorker EXCEPT !.pc = "start",
                                                            !.sem = dm.semaphore]]
                /\ Emit(n, "download_queued")
                /\ dm' = [dm EXCEPT !.retry = [calls |-> @.calls + 1, job_id |-> j,
                                               returned |-> n]]
         ELSE /\ dm' = [dm EXCEPT !.retry = [calls |-> @.calls + 1, job_id |-> j,
                                             returned |-> 0]]
              /\ UNCHANGED << dj, dw, dev >>
    /\ UNCHANGED << ctl, beside >>

\* delete_download(job_id) of a job in self.jobs, lines 232-244: the entry is
\* deleted and DOWNLOAD_DELETED emitted; the DownloadJob itself is not
\* touched, and its thread goes on with it.  (delete_file removes the output
\* file, which is no part of this state.)
DeleteDownload(j) ==
    /\ ctl = NoCall
    /\ j \in Queued
    /\ dm' = [dm EXCEPT !.deleted = @ \cup {j}, !.deleted_events = @ + 1]
    /\ Emit(j, "download_deleted")
    /\ UNCHANGED << dj, dw, ctl, beside >>

\* the control calls that only test the id
ControlCalls == {"pause", "resume", "cancel", "delete"}

\* pause_download, resume_download, cancel_download and delete_download with
\* an id that is not in self.jobs, lines 206, 215, 224 and 233-235: the call
\* returns
AbsentId(op, j) ==
    /\ ctl = NoCall
    /\ op \in ControlCalls
    /\ j \notin Queued
    /\ dm.absent < MaxAbsentCalls
    /\ dm' = [dm EXCEPT !.absent = @ + 1]
    /\ UNCHANGED << dj, dw, ctl, dev, beside >>

\* set_max_concurrent: a new Semaphore takes the place of self._semaphore
SetMaxConcurrent(max_concurrent) ==
    /\ dm.changes < MaxCapacityChanges
    /\ dm' = [dm EXCEPT !.max_concurrent = max_concurrent,
                         !.semaphore = Len(dm.sems) + 1,
                         !.sems = Append(dm.sems, max_concurrent),
                         !.changes = dm.changes + 1]
    /\ UNCHANGED << dj, dw, ctl, dev, beside >>

----------------------------------------------------------------------------
(* The table of the search jobs: _start_search_job, lines 1158-1176, and    *)
(* the first lines of the runner, 1187-1193.                                *)

\* lines 1160-1161
job_ttl_seconds == 45 * 60
max_jobs == 80

\* the ids of the jobs in the table
TableIds(jobs) == { jobs[i].id : i \in 1..Len(jobs) }

\* sorted(search_jobs.values(), key = startedAtMono), a stable sort: the job
\* at i stands before the job at j
SortsBefore(jobs, i, j) ==
    \/ jobs[i].started < jobs[j].started
    \/ jobs[i].started = jobs[j].started /\ i < j

\* lines 1164-1168: the first max(0, len - max_jobs + 1) jobs of `ordered`
Stale(jobs) ==
    IF Len(jobs) >= max_jobs
      THEN { jobs[i].id : i \in
               { i \in 1..Len(jobs) :
                   Cardinality({ j \in 1..Len(jobs) : SortsBefore(jobs, j, i) })
                     < Max(0, Len(jobs) - max_jobs + 1) } }
      ELSE {}

\* lines 1169-1172: the jobs that began more than ttl_seconds ago
Expired(jobs, now_mono) ==
    { jobs[i].id : i \in
        { i \in 1..Len(jobs) :
            jobs[i].started # 0 /\ now_mono - jobs[i].started > job_ttl_seconds } }

\* lines 1173-1176
Inserted(jobs, now_mono, job_id) ==
    LET to_delete == Stale(jobs) \cup Expired(jobs, now_mono)
    IN Append(SelectSeq(jobs, LAMBDA j : j.id \notin to_delete),
              [id |-> job_id, started |-> 0])

\* _start_search_job, lines 1158-1176 and 1361
CreateJob ==
    /\ sj.calls < MaxCreates
    /\ sj' = [sj EXCEPT !.jobs = Inserted(sj.jobs, sj.clock, sj.made + 1),
                        !.made = @ + 1, !.calls = @ + 1]
    /\ UNCHANGED but_sj

\* runner, lines 1187-1193: the thread of a job begins.  The runner of a job
\* that is no longer in the table writes to a dict nobody can reach.
RunnerStarts(job_id) ==
    /\ \E i \in 1..Len(sj.jobs) :
         /\ sj.jobs[i].id = job_id
         /\ sj.jobs[i].started = 0
         /\ sj' = [sj EXCEPT !.jobs[i].started = sj.clock]
    /\ UNCHANGED but_sj

TableTick ==
    /\ sj.clock < MaxTableTicks * TableTickSeconds
    /\ sj' = [sj EXCEPT !.clock = @ + TableTickSeconds]
    /\ UNCHANGED but_sj

\* the table after n createJob calls at time 1 whose runners have begun
TableOf(n) ==
    [jobs |-> [i \in 1..n |-> [id |-> i, started |-> 1]], made |-> n, calls |-> 0,
     clock |-> 1]

----------------------------------------------------------------------------
(* The session context (pluggy/core/request_context.py) of the background   *)
(* threads: which set_session calls the code makes, and where.              *)

\* the profiles of the sessions that send requests
Profiles == {"alice", "bob"}

\* the contexts of the requests: of a session with a profile, or of none
Sessions == Profiles \cup {DefaultSession}

\* no snapshot of the context goes with the call
NoSnapshot == "-"

\* what a request hands to a background thread: SourceManager.search submits
\* _safe_search as it is (source_manager.py line 250); _start_search_job and
\* queue_download take a snapshot of the context for their thread
Handed(op, session) ==
    CASE op = "search" ->
           [thread |-> "search_worker", of |-> session, snapshot |-> NoSnapshot]
      [] op = "search_job" ->
           [thread |-> "job_runner", of |-> session, snapshot |-> session]
      [] op = "download" ->
           [thread |-> "download_worker", of |-> session, snapshot |-> session]

\* session_context_middleware (app.py lines 643-656) sets the context of the
\* request, and the handler calls SourceManager.search, _start_search_job or
\* queue_download
ServeRequest(session, op) ==
    /\ ss.served < MaxRequests
    /\ ss' = [ss EXCEPT !.session["request"] = session,
                        !.tasks = @ \cup {Handed(op, session)},
                        !.served = @ + 1]
    /\ UNCHANGED but_ss

\* set_session(ctx_snapshot) at the head of a thread or task, where there is one
SessionIn(t) == IF t.snapshot = NoSnapshot THEN ss.session[t.thread] ELSE t.snapshot

\* A background thread runs what it was handed: set_session where the code
\* calls it (app.py lines 1188 and 1230, download_manager.py lines 91-92),
\* then the provider's search or the download, which reads the settings of
\* the current context.  The runner of a job hands each provider to a worker
\* of its own executor.
RunHanded(t) ==
    /\ t \in ss.tasks
    /\ ss' = [ss EXCEPT
                !.session[t.thread] = SessionIn(t),
                !.tasks = IF t.thread = "job_runner"
                            THEN (@ \ {t}) \cup {[t EXCEPT !.thread = "job_worker"]}
                            ELSE @ \ {t},
                !.ran = IF t.thread = "job_runner" THEN @
                        ELSE @ \cup {[thread |-> t.thread, of |-> t.of,
                                      session |-> SessionIn(t)]}]
    /\ UNCHANGED but_ss

----------------------------------------------------------------------------
(* The lists of results as objects: which list SearchCache holds, which one *)
(* SourceManager.search returns, and what its caller does to it.            *)

\* what the providers find for a query
HeapFound == {<< >>, <<"r1">>}

\* SearchCache.get (source_manager.py lines 32-44): the object the entry holds
HeapCacheGet(query) == hp.cache[query]

\* the object search returns for the page cut out of the sorted results: the
\* one it has just given to SearchCache.set (lines 378 and 388)
Returned(paginated) == paginated

\* SourceManager.search.  A hit returns what SearchCache.get returns (lines
\* 218-221); a miss makes the list paginated = sorted_results[start:end],
\* gives it to SearchCache.set, which keeps the object (lines 46-49), and
\* returns it.
HeapSearch(query, found) ==
    IF HeapCacheGet(query) # 0
      THEN /\ hp' = [hp EXCEPT !.got = [list |-> HeapCacheGet(query), query |-> query,
                                        hit |-> TRUE,
                                        rows |-> hp.lists[HeapCacheGet(query)]]]
           /\ UNCHANGED but_hp
      ELSE /\ Len(hp.lists) < MaxLists
           /\ LET paginated == Len(hp.lists) + 1
              IN  hp' = [hp EXCEPT
                           !.lists = Append(@, found),
                           !.cache[query] = paginated,
                           !.stored[query] = found,
                           !.got = [list |-> Returned(paginated), query |-> query,
                                    hit |-> FALSE, rows |-> found]]
           /\ UNCHANGED but_hp

\* GET /api/search appends the rows of its own (the open-directory pass, the
\* curated links) to the list search returned: results.append (app.py lines
\* 1052 and 1057)
HandlerAppend(row) ==
    /\ hp.got.list # 0
    /\ Len(hp.lists[hp.got.list]) < MaxRows
    /\ hp' = [hp EXCEPT !.lists[hp.got.list] = Append(@, row)]
    /\ UNCHANGED but_hp

\* the entry is older than ttl_seconds: SearchCache.get deletes it (line 42)
HeapExpire(query) ==
    /\ hp.cache[query] # 0
    /\ hp' = [hp EXCEPT !.cache[query] = 0, !.stored[query] = << >>]
    /\ UNCHANGED but_hp

----------------------------------------------------------------------------
(* pluggy/core/event_bus.py *)

\* callback in self._subscribers[event_type]
Subscribed(event_type, callback) ==
    \E i \in 1..Len(bus.subscribers[event_type]) :
        bus.subscribers[event_type][i] = callback

\* EventBus.subscribe: appends the callback unless it is in the list
BusSubscribe(event_type, callback) ==
    /\ bus.ops < MaxBusOps
    /\ bus' = [bus EXCEPT
                 !.subscribers[event_type] =
                     IF Subscribed(event_type, callback) THEN @ ELSE Append(@, callback),
                 !.op = "subscribe",
                 !.ops = @ + 1]
    /\ UNCHANGED but_bus

\* EventBus.unsubscribe: list.remove(callback)
BusUnsubscribe(event_type, callback) ==
    /\ bus.ops < MaxBusOps
    /\ bus' = [bus EXCEPT
                 !.subscribers[event_type] = SelectSeq(@, LAMBDA c : c # callback),
                 !.op = "unsubscribe",
                 !.ops = @ + 1]
    /\ UNCHANGED but_bus

\* emit stopping at the first callback that raises, the exception leaving it
RECURSIVE EmitLoopUnguarded(_, _, _)
EmitLoopUnguarded(callbacks, raising, called) ==
    IF callbacks = << >>
      THEN [called |-> called, propagated |-> FALSE]
      ELSE IF Head(callbacks) \in raising
             THEN [called |-> Append(called, Head(callbacks)), propagated |-> TRUE]
             ELSE EmitLoopUnguarded(Tail(callbacks), raising,
                                    Append(called, Head(callbacks)))

\* the loop of EventBus.emit over the copy of the list: each callback is
\* called inside try/except Exception, which prints and goes on
RECURSIVE EmitLoop(_, _, _)
EmitLoop(callbacks, raising, called) ==
    IF callbacks = << >>
      THEN [called |-> called, propagated |-> FALSE]
      ELSE EmitLoop(Tail(callbacks), raising, Append(called, Head(callbacks)))

\* EventBus.emit, the callbacks in raising raising an Exception
BusEmit(event_type, raising) ==
    /\ bus.ops < MaxBusOps
    /\ LET done == EmitLoop(bus.subscribers[event_type], raising, << >>)
       IN  bus' = [bus EXCEPT
                     !.op = "emit",
                     !.last = [event |-> event_type, raising |-> raising,
                               called |-> done.called,
                               propagated |-> done.propagated],
                     !.ops = @ + 1]
    /\ UNCHANGED but_bus

\* EventBus.clear
BusClear ==
    /\ bus.ops < MaxBusOps
    /\ bus' = [bus EXCEPT !.subscribers = [e \in BusEvents |-> << >>],
                          !.op = "clear",
                          !.ops = @ + 1]
    /\ UNCHANGED but_bus

----------------------------------------------------------------------------
(* NativeRequestsBackend.download (pluggy/core/download_backends.py) and    *)
(* the bytes of the file it writes.                                         *)

\* the bytes of s from place from + 1 on
From(s, from) == SubSeq(s, from + 1, Len(s))

\* What a server answers to GET with the header Range: bytes=range- (-1: no
\* header): the whole resource with 200, or, asked for a range that begins
\* inside the resource, the rest of it with 206; a range that begins at its
\* end is answered with 416 unless the server takes no notice of the header
ServerAnswers(payload, range) ==
    {[status |-> 200, body |-> payload]}
      \cup (IF range >= 0 /\ range < Len(payload)
              THEN {[status |-> 206, body |-> From(payload, range)]} ELSE {})
      \cup (IF range >= Len(payload)
              THEN {[status |-> 416, body |-> << >>]} ELSE {})

\* downloaded_bytes = output_path.stat().st_size if the file exists (line 57)
\* and the Range header for it (lines 58-60)
RangeHeader(file) == IF Len(file) > 0 THEN Len(file) ELSE -1

\* the file as open(output_path, mode) leaves it: "ab" keeps it, "wb" empties
\* it; the mode is chosen by downloaded_bytes alone (line 72)
Opened(file) == IF Len(file) > 0 THEN file ELSE << >>

\* requests.get, raise_for_status, and open(output_path, mode)
FsRequest(answer) ==
    /\ fs.pc = "start"
    /\ answer \in ServerAnswers(fs.payload, RangeHeader(fs.file))
    /\ fs' = IF answer.status >= 400
               THEN [fs EXCEPT !.pc = "error", !.range = RangeHeader(fs.file),
                               !.status = answer.status]
               ELSE [fs EXCEPT !.pc = "stream", !.range = RangeHeader(fs.file),
                               !.status = answer.status, !.body = answer.body,
                               !.file = Opened(fs.file)]
    /\ UNCHANGED but_fs

\* one round of the loop over response.iter_content: f.write(chunk)
FsWriteChunk ==
    /\ fs.pc = "stream"
    /\ fs.body # << >>
    /\ LET n == Min(ChunkBytes, Len(fs.body))
       IN  fs' = [fs EXCEPT !.file = @ \o SubSeq(fs.body, 1, n),
                            !.body = From(@, n)]
    /\ UNCHANGED but_fs

\* the response is read to its end: DownloadBackendResult(completed=True)
FsCompleted ==
    /\ fs.pc = "stream"
    /\ fs.body = << >>
    /\ fs' = [fs EXCEPT !.pc = "done"]
    /\ UNCHANGED but_fs

----------------------------------------------------------------------------
(* The specifications *)

\* One provider at a time, every retry and circuit-breaker setting
CircuitSettings ==
    [ max_retries : {0, 1},
      circuit_failure_threshold : {1, 2},
      circuit_cooldown_seconds : {200},
      search_timeout_seconds : {100},
      early_return_seconds : {0},
      early_return_min_results : {1},
      prefer_http_completion : {TRUE} ]

Only(p) == [q \in Sources |-> q = p]

Init == Start(CircuitSettings, {Only("PirateBay")}, MaxSearches)

Spec == Init /\ [][Next]_vars

\* Two providers, every fast-return setting
FanOutSettings ==
    [ max_retries : {0},
      circuit_failure_threshold : {2},
      circuit_cooldown_seconds : {200},
      search_timeout_seconds : {200},
      early_return_seconds : {0, 100},
      early_return_min_results : {0, 1},
      prefer_http_completion : BOOLEAN ]

Both(p1, p2) == [q \in Sources |-> q \in {p1, p2}]

InitFanOut ==
    Start(FanOutSettings,
          {Both("PirateBay", "OpenDirectory"), Both("PirateBay", "Prowlarr")},
          MaxFanOutSearches)

SpecFanOut == InitFanOut /\ [][Next]_vars

\* Two providers, fast returns, a circuit that opens at the first failure or
\* at the second, two searches
SkipSettings ==
    [ max_retries : {0},
      circuit_failure_threshold : {1, 2},
      circuit_cooldown_seconds : {200},
      search_timeout_seconds : {200},
      early_return_seconds : {0},
      early_return_min_results : {1},
      prefer_http_completion : {FALSE} ]

InitSkip == Start(SkipSettings, {Both("PirateBay", "OpenDirectory")}, MaxSkipSearches)

SpecSkip == InitSkip /\ [][Next]_vars

\* One provider, reloads, one setting
CacheSettings ==
    [ max_retries : {0},
      circuit_failure_threshold : {2},
      circuit_cooldown_seconds : {200},
      search_timeout_seconds : {100},
      early_return_seconds : {0},
      early_return_min_results : {1},
      prefer_http_completion : {TRUE} ]

InitCache == Start(CacheSettings, {Only("PirateBay")}, MaxSearches)

NextCache == Next \/ Reload

SpecCache == InitCache /\ [][NextCache]_vars

\* One provider, searches and a search job side by side
JobSettings ==
    [ max_retries : {0},
      circuit_failure_threshold : {1},
      circuit_cooldown_seconds : {200},
      search_timeout_seconds : {100},
      early_return_seconds : {0},
      early_return_min_results : {1},
      prefer_http_completion : {TRUE} ]

InitJob == Start(JobSettings, {Only("PirateBay")}, MaxJobSearches)

NextJob ==
    \/ Next
    \/ StartSearchJob
    \/ JobRunnerBegin
    \/ JobSubmit
    \/ JobWaitReturn
    \/ JobFinish
    \/ CancelSearchJob

SpecJob == InitJob /\ [][NextJob]_vars

\* the health table after `failed` have failed once each, at time 0
HealthAfterFailures(failed) ==
    [p \in Sources |->
        IF p \in failed
          THEN RecordSourceOutcome(NewHealth, FALSE, ErrUpstream, 1, 0)
          ELSE NewHealth]

\* Two providers and one search job, no search() call; PirateBay may have
\* failed before, so that its circuit is open
InitJobOnly ==
    /\ cfg \in JobSettings
    /\ limit = 0
    /\ now = 0
    /\ enabled \in {Both("PirateBay", "OpenDirectory"), Both("PirateBay", "Prowlarr")}
    /\ health \in {HealthAfterFailures({}), HealthAfterFailures({"PirateBay"})}
    /\ cache = << >>
    /\ srch = [s \in SearchIds |-> IdleFrame]
    /\ task = [s \in Callers |-> [p \in Sources |-> NoTask]]
    /\ job = NoJob
    /\ rl = NoReload
    /\ xs = << >>
    /\ px = NoPure
    /\ NoDownloads
    /\ NoExtras

NextJobOnly ==
    \/ StartSearchJob
    \/ JobRunnerBegin
    \/ JobSubmit
    \/ JobWaitReturn
    \/ JobFinish
    \/ CancelSearchJob
    \/ \E p \in Sources : SafeSearchCall(JobId, p)
    \/ \E p \in Sources : SafeSearchReturn(JobId, p)
    \/ Tick

SpecJobOnly == InitJobOnly /\ [][NextJobOnly]_vars

\* the runner thread of the job has a step to take that changes the job:
\* wait() returns at once when a future is done, and the loop ends when
\* nothing is pending, the job is cancelled or the deadline has passed
RunnerCanMove ==
    \/ job.pc \in {"init", "submit", "final"}
    \/ /\ job.pc = "wait"
       /\ \/ job.cancelRequested
          \/ now >= job.deadline
          \/ \A p \in job.pending : task[JobId][p].st = "done"
          \/ \E p \in job.pending : task[JobId][p].st = "done"

\* a step of the runner thread
RunnerMoves ==
    /\ job.pc \in {"init", "submit", "wait", "final"}
    /\ job'.pc # job.pc \/ job'.next # job.next \/ job'.pending # job.pending

\* the runner thread is scheduled: weak fairness of its steps
FairJobOnly ==
    /\ SpecJobOnly
    /\ (<>[]RunnerCanMove => []<><<RunnerMoves>>_vars)

\* The pipeline's functions on every list of ResultLists
InitPure ==
    /\ cfg \in CacheSettings
    /\ limit = 0
    /\ now = 0
    /\ enabled = Only("PirateBay")
    /\ health = [p \in Sources |-> NewHealth]
    /\ cache = << >>
    /\ srch = [s \in SearchIds |-> IdleFrame]
    /\ task = [s \in Callers |-> [p \in Sources |-> NoTask]]
    /\ job = NoJob
    /\ rl = NoReload
    /\ xs \in ResultLists
    /\ px = NoPure
    /\ NoDownloads
    /\ NoExtras

NextPure == Dedupe \/ DedupeAgain \/ Aggregate

SpecPure == InitPure /\ [][NextPure]_vars

\* the other objects as they are built, nothing searched or reloaded
Untouched ==
    /\ cfg \in CacheSettings
    /\ limit = 0
    /\ now = 0
    /\ enabled = Only("PirateBay")
    /\ health = [p \in Sources |-> NewHealth]
    /\ cache = << >>
    /\ srch = [s \in SearchIds |-> IdleFrame]
    /\ task = [s \in Callers |-> [p \in Sources |-> NoTask]]
    /\ job = NoJob
    /\ rl = NoReload
    /\ xs = << >>
    /\ px = NoPure

\* one job, every response, every control call
InitDownload == Untouched /\ Downloads(1, Responses) /\ NoExtras

NextDownload ==
    \/ \E kind \in {"magnet", "direct"} : QueueDownload(kind)
    \/ \E j \in DownloadIds : Acquire(j)
    \/ \E j \in DownloadIds : Prepare(j)
    \/ \E j \in DownloadIds : Resolve(j)
    \/ \E j \in DownloadIds : DownloadFile(j)
    \/ \E j \in DownloadIds : Request(j)
    \/ \E j \in DownloadIds : Chunk(j)
    \/ \E j \in DownloadIds : PausedPoll(j)
    \/ \E j \in DownloadIds : AfterDownload(j)
    \/ \E j \in DownloadIds : Complete(j)
    \/ \E j \in DownloadIds : PauseBegin(j)
    \/ \E j \in DownloadIds : PauseSet(j)
    \/ \E j \in DownloadIds : ResumeBegin(j)
    \/ \E j \in DownloadIds : ResumeSet(j)
    \/ \E j \in DownloadIds : CancelDownload(j)
    \/ \E max_concurrent \in 1..2 : SetMaxConcurrent(max_concurrent)

SpecDownload == InitDownload /\ [][NextDownload]_vars

\* MaxDownloads jobs of one chunk each, cancellations and changes of capacity
InitSlots == Untouched /\ Downloads(MaxDownloads, OneChunk) /\ NoExtras

NextSlots ==
    \/ \E kind \in {"magnet", "direct"} : QueueDownload(kind)
    \/ \E j \in DownloadIds : Acquire(j)
    \/ \E j \in DownloadIds : Prepare(j)
    \/ \E j \in DownloadIds : Resolve(j)
    \/ \E j \in DownloadIds : DownloadFile(j)
    \/ \E j \in DownloadIds : Request(j)
    \/ \E j \in DownloadIds : Chunk(j)
    \/ \E j \in DownloadIds : AfterDownload(j)
    \/ \E j \in DownloadIds : Complete(j)
    \/ \E j \in DownloadIds : CancelDownload(j)
    \/ \E max_concurrent \in 1..2 : SetMaxConcurrent(max_concurrent)

SpecSlots == InitSlots /\ [][NextSlots]_vars

\* One job and its retries, with the native backend selected or aria2
InitRetry ==
    /\ Untouched
    /\ NoExtras
    /\ \E selected_backend \in Backends : DownloadsWith(1, OneChunk, selected_backend)

NextRetry ==
    \/ \E kind \in {"magnet", "direct"} : QueueDownload(kind)
    \/ \E j \in DownloadIds : Acquire(j)
    \/ \E j \in DownloadIds : Prepare(j)
    \/ \E j \in DownloadIds : Resolve(j)
    \/ \E j \in DownloadIds : DownloadFile(j)
    \/ \E j \in DownloadIds : Aria2Download(j)
    \/ \E j \in DownloadIds : Request(j)
    \/ \E j \in DownloadIds : Chunk(j)
    \/ \E j \in DownloadIds : AfterDownload(j)
    \/ \E j \in DownloadIds : Complete(j)
    \/ \E j \in DownloadIds : CancelDownload(j)
    \/ \E j \in DownloadIds : RetryDownload(j)

SpecRetry == InitRetry /\ [][NextRetry]_vars

\* One job with a direct URL and its retries, pause_download, cancel_download,
\* retry_download and delete_download on it, and every control call on an id
\* that is not in self.jobs
InitDelete == Untouched /\ Downloads(1, OneChunk) /\ NoExtras

NextDelete ==
    \/ QueueDownload("direct")
    \/ \E j \in DownloadIds : Acquire(j)
    \/ \E j \in DownloadIds : Prepare(j)
    \/ \E j \in DownloadIds : DownloadFile(j)
    \/ \E j \in DownloadIds : Request(j)
    \/ \E j \in DownloadIds : Chunk(j)
    \/ \E j \in DownloadIds : PausedPoll(j)
    \/ \E j \in DownloadIds : AfterDownload(j)
    \/ \E j \in DownloadIds : Complete(j)
    \/ \E j \in DownloadIds : PauseBegin(j)
    \/ \E j \in DownloadIds : PauseSet(j)
    \/ \E j \in DownloadIds : CancelDownload(j)
    \/ \E j \in DownloadIds : RetryDownload(j)
    \/ \E j \in DownloadIds : DeleteDownload(j)
    \/ \E op \in ControlCalls, j \in DownloadIds : AbsentId(op, j)

SpecDelete == InitDelete /\ [][NextDelete]_vars

\* The table of the search jobs, empty or nearly full
InitTable ==
    /\ Untouched
    /\ NoLater
    /\ NoDownloads
    /\ sj \in {TableOf(0), TableOf(max_jobs - 1), TableOf(max_jobs)}
    /\ ss = NoSessions
    /\ hp = NoHeap
    /\ bus = NoBus
    /\ fs = NoFile

NextTable ==
    \/ CreateJob
    \/ \E job_id \in 1..(max_jobs + MaxCreates) : RunnerStarts(job_id)
    \/ TableTick

SpecTable == InitTable /\ [][NextTable]_vars

\* Requests of two sessions and of no session, and their background threads
InitSession ==
    /\ Untouched
    /\ NoLater
    /\ NoDownloads
    /\ sj = NoTable
    /\ ss = NoSessions
    /\ hp = NoHeap
    /\ bus = NoBus
    /\ fs = NoFile

NextSession ==
    \/ \E session \in Sessions,
          op \in {"search", "search_job", "download"} : ServeRequest(session, op)
    \/ \E thread \in Threads, of \in Sessions, snapshot \in Sessions \cup {NoSnapshot} :
          RunHanded([thread |-> thread, of |-> of, snapshot |-> snapshot])

SpecSession == InitSession /\ [][NextSession]_vars

\* Searches through the cache and a handler that appends to what it got
InitHeap ==
    /\ Untouched
    /\ NoLater
    /\ NoDownloads
    /\ sj = NoTable
    /\ ss = NoSessions
    /\ hp = NoHeap
    /\ bus = NoBus
    /\ fs = NoFile

NextHeap ==
    \/ \E query \in HeapQueries, found \in HeapFound : HeapSearch(query, found)
    \/ \E row \in {"od", "custom"} : HandlerAppend(row)
    \/ \E query \in HeapQueries : HeapExpire(query)

SpecHeap == InitHeap /\ [][NextHeap]_vars

\* Calls of the event bus in any order
InitBus ==
    /\ Untouched
    /\ NoLater
    /\ NoDownloads
    /\ sj = NoTable
    /\ ss = NoSessions
    /\ hp = NoHeap
    /\ bus = NoBus
    /\ fs = NoFile

NextBus ==
    \/ \E e \in BusEvents, h \in Handlers : BusSubscribe(e, h)
    \/ \E e \in BusEvents, h \in Handlers : BusUnsubscribe(e, h)
    \/ \E e \in BusEvents, raising \in SUBSET Handlers : BusEmit(e, raising)
    \/ BusClear

SpecBus == InitBus /\ [][NextBus]_vars

\* the resources of SpecResume: the byte strings of length 1..MaxPayload
Payloads == UNION {[1..n -> {0, 1}] : n \in 1..MaxPayload}

\* A download by the native backend of a resource of which the file holds the
\* first k bytes, k from 0 (no file) to all of it
InitResume ==
    /\ Untouched
    /\ NoLater
    /\ NoDownloads
    /\ sj = NoTable
    /\ ss = NoSessions
    /\ hp = NoHeap
    /\ bus = NoBus
    /\ \E payload \in Payloads, k \in 0..MaxPayload :
          /\ k <= Len(payload)
          /\ fs = [NoFile EXCEPT !.pc = "start", !.payload = payload,
                                 !.file = SubSeq(payload, 1, k)]

NextResume ==
    \/ \E status \in {200, 206, 416}, from \in 0..MaxPayload :
          FsRequest([status |-> status, body |-> From(fs.payload, from)])
    \/ FsWriteChunk
    \/ FsCompleted

SpecResume == InitResume /\ [][NextResume]_vars

----------------------------------------------------------------------------
(* The properties *)

\* this step records an outcome for provider p
Recorded(p) == health'[p].attempts # health[p].attempts
RecordedFailure(p) == health'[p].failures = health[p].failures + 1
RecordedSuccess(p) == health'[p].successes = health[p].successes + 1

\* this step is search call s collecting or giving up provider p
Settles(s, p) == p \in srch[s].pending /\ p \notin srch'[s].pending

\* C1: while a provider's circuit is open and its cooldown has not run out,
\* no call of the provider's search begins
C1_NoCallWhileCircuitOpen ==
    [][\A s \in SearchIds, p \in Sources :
          (health[p].circuit_open /\ now < health[p].cooldown_until)
              => task'[s][p].entered <= task[s][p].entered]_vars

\* C2: a search with wait_for_all_sources never triggers the fast return, and
\* leaves its collection loop with providers pending only at its deadline
C2_WaitForAllSources ==
    [][\A s \in SearchIds :
          srch'[s].filters.wait_for_all_sources =>
             /\ ~srch'[s].fast_return_triggered
             /\ (srch[s].pc = "wait" /\ srch'[s].pc = "final" /\ srch'[s].pending # {})
                   => now >= srch[s].deadline]_vars

\* a search with wait_for_all_sources has left its loop at the deadline with a
\* provider pending, where the fast return would otherwise have applied
C2_Witness ==
    \E s \in SearchIds :
        /\ srch[s].pc = "final"
        /\ srch[s].filters.wait_for_all_sources
        /\ srch[s].pending # {}
        /\ Len(srch[s].all_results) >= 1
        /\ ~(cfg.prefer_http_completion /\ "OpenDirectory" \in srch[s].pending)
        /\ now >= srch[s].deadline

\* this step is a round of the collection loop of search call s
LoopRound(s) == srch[s].pc = "wait" /\ srch'[s] # srch[s]

\* C3, as the specification states it: a round of the loop triggers the fast
\* return exactly when providers are pending, the results so far number at
\* least early_return_min_results, early_return_seconds have elapsed,
\* wait_for_all_sources is unset and neither HTTP nor OpenDirectory is pending
C3_FastReturnAsStated ==
    [][\A s \in SearchIds :
          LoopRound(s) =>
             (srch'[s].fast_return_triggered <=>
                /\ srch'[s].pending # {}
                /\ Len(srch'[s].all_results) >= cfg.early_return_min_results
                /\ now - srch'[s].search_started >= cfg.early_return_seconds
                /\ ~srch'[s].filters.wait_for_all_sources
                /\ srch'[s].pending \cap {"HTTP", "OpenDirectory"} = {})]_vars

\* C3, amended: at least one result is needed whatever early_return_min_results
\* is, and a pending HTTP or OpenDirectory holds the fast return back only
\* while prefer_http_completion is set
C3_FastReturnCondition ==
    [][\A s \in SearchIds :
          LoopRound(s) =>
             (srch'[s].fast_return_triggered <=>
                /\ srch'[s].pending # {}
                /\ Len(srch'[s].all_results) >= 1
                /\ Len(srch'[s].all_results) >= cfg.early_return_min_results
                /\ now - srch'[s].search_started >= cfg.early_return_seconds
                /\ ~srch'[s].filters.wait_for_all_sources
                /\ (cfg.prefer_http_completion
                       => srch'[s].pending \cap {"HTTP", "OpenDirectory"} = {}))]_vars

\* the fast return has fired with exactly early_return_min_results results at
\* exactly early_return_seconds, before the deadline
C3_Witness ==
    \E s \in SearchIds :
        /\ srch[s].pc = "final"
        /\ srch[s].fast_return_triggered
        /\ cfg.early_return_min_results = 1
        /\ Len(srch[s].all_results) = cfg.early_return_min_results
        /\ cfg.early_return_seconds = TickSeconds
        /\ now - srch[s].search_started = cfg.early_return_seconds
        /\ now < srch[s].deadline

\* the progress events of search call s about provider p, in frame f
ProgressOf(f, p) ==
    { i \in 1..Len(f.events) :
          f.events[i].type = "search_progress" /\ f.events[i].source = p }

C5_SearchNeverRaises == \A s \in SearchIds : srch[s].pc # "raised"

\* C6: _safe_search enters the provider's search at most max_retries + 1
\* times, goes round again only after a call that failed, ends at the first
\* call that succeeds, and reports as attempts the number of calls it made;
\* the search records the reported attempts, and a success with its results
C6_SafeSearchRetries ==
    [][\A s \in SearchIds, p \in Sources :
          LET t == task[s][p]
              u == task'[s][p]
          IN /\ u.entered <= cfg.max_retries + 1
             /\ u.entered > t.entered => (t.st = "queued" /\ u.entered = t.entered + 1)
             /\ (t.st = "calling" /\ u.st = "queued") =>
                   /\ u.last_warning \in {ErrHardFail, ErrUpstream}
                   /\ t.entered <= cfg.max_retries
             /\ (t.st = "calling" /\ u.st = "done") =>
                   /\ u.out.attempts = t.entered
                   /\ ~u.out.ok => t.entered = cfg.max_retries + 1
             /\ (t.st = "done" /\ srch[s].pc = "wait" /\ Settles(s, p)) =>
                   /\ health'[p].attempts = health[p].attempts + t.entered
                   /\ t.out.ok => /\ RecordedSuccess(p)
                                  /\ health'[p].failures = health[p].failures
                                  /\ srch'[s].all_results
                                        = srch[s].all_results \o t.out.results
                   /\ ~t.out.ok => RecordedFailure(p)]_vars

\* with max_retries = 1, a provider has failed its first call and succeeded in
\* its second: the task is done after two calls, with results
C6_Witness ==
    \E s \in SearchIds, p \in Sources :
        /\ cfg.max_retries = 1
        /\ task[s][p].st = "done"
        /\ task[s][p].entered = 2
        /\ task[s][p].out.ok
        /\ task[s][p].out.attempts = 2
        /\ task[s][p].out.results # << >>

\* C7: the outcome of the probe a search makes once the cooldown has run out
\* settles the circuit: a success closes it and resets consecutive_failures,
\* a failure opens it again with a fresh cooldown
C7_HalfOpenProbe ==
    [][\A s \in SearchIds, p \in Sources :
          (p \in srch[s].probed /\ Settles(s, p)) =>
             /\ RecordedSuccess(p) =>
                   /\ ~health'[p].circuit_open
                   /\ health'[p].consecutive_failures = 0
             /\ RecordedFailure(p) =>
                   /\ health'[p].circuit_open
                   /\ health'[p].cooldown_until = now + cfg.circuit_cooldown_seconds]_vars

\* C8: consecutive_failures counts the failed outcomes since the last success:
\* a failure adds one to it and opens the circuit when it reaches the
\* threshold, a success resets it with circuit_open, cooldown_until and
\* last_error, and nothing else changes it
C8_ConsecutiveFailures ==
    [][\A p \in Sources :
          /\ (Recorded(p) /\ RecordedFailure(p)) =>
                /\ health'[p].consecutive_failures = health[p].consecutive_failures + 1
                /\ health'[p].consecutive_failures >= cfg.circuit_failure_threshold =>
                      /\ health'[p].circuit_open
                      /\ health'[p].cooldown_until = now + cfg.circuit_cooldown_seconds
          /\ (Recorded(p) /\ RecordedSuccess(p)) =>
                /\ health'[p].consecutive_failures = 0
                /\ ~health'[p].circuit_open
                /\ health'[p].cooldown_until = 0
                /\ health'[p].last_error = ""
          /\ ~Recorded(p) =>
                health'[p].consecutive_failures = health[p].consecutive_failures]_vars

\* C9: a provider whose circuit is open and cooling down when a search, or
\* the runner of a search job, comes to it is skipped: only
\* skipped_due_circuit changes in its health record, by one; no task is
\* submitted for it; the caller notes the "Circuit open" warning; and outcomes
\* are recorded only for providers that were submitted
C9_CircuitSkipNotCounted ==
    [][\A p \in Sources :
          LET blocked == health[p].circuit_open /\ now < health[p].cooldown_until
              skip == [health[p] EXCEPT !.skipped_due_circuit = @ + 1]
          IN
          /\ \A s \in SearchIds :
               (/\ srch[s].pc = "idle"
                /\ srch'[s].events # << >>
                /\ p \in EnabledSources(srch'[s].filters)
                /\ blocked)
               => /\ health'[p] = skip
                  /\ p \notin srch'[s].futures
                  /\ task'[s][p].st = "none"
                  /\ ContainsCircuitOpen(srch'[s].source_warnings[p])
          /\ (/\ job.pc = "submit"
              /\ job'.next = job.next + 1
              /\ job.enabled[job.next] = p
              /\ blocked)
             => /\ health'[p] = skip
                /\ p \notin job'.futures
                /\ task'[JobId][p].st = "none"
                /\ job'.sources[p].status = "skipped"
                /\ ContainsCircuitOpen(job'.sources[p].warning)
          /\ health'[p].skipped_due_circuit # health[p].skipped_due_circuit
                => (blocked /\ health'[p] = skip)
          /\ Recorded(p) =>
                \/ \E s \in SearchIds : Settles(s, p) /\ p \in srch[s].futures
                \/ (p \in job.pending /\ p \notin job'.pending /\ p \in job.futures)]_vars

\* the runner of a search job has skipped a provider whose circuit a failed
\* search had opened: one attempt, one failure, one skip
C9_Witness ==
    \E p \in Sources :
        /\ job.sources[p].status = "skipped"
        /\ job.completedSources = 1
        /\ health[p].skipped_due_circuit = 1
        /\ health[p].attempts = 1
        /\ health[p].failures = 1
        /\ health[p].consecutive_failures = 1
        /\ health[p].circuit_open

\* C10: a search that begins while the cache holds an entry for its (query,
\* page, filters) younger than the TTL returns the list the search that wrote
\* the entry returned, starts no provider task and publishes no event
C10_CacheHit ==
    [][\A s \in SearchIds, i \in 1..Len(cache) :
          (/\ srch[s].pc = "idle"
           /\ srch'[s].pc # "idle"
           /\ Strip(srch'[s].query) # ""
           /\ cache[i].key = MakeKey(srch'[s].query, srch'[s].page, srch'[s].filters)
           /\ now - cache[i].timestamp < 300)
          => /\ srch'[s].pc = "returned"
             /\ srch'[s].ret = cache[i].results
             /\ srch'[s].ret = srch[cache[i].by].ret
             /\ srch'[s].events = << >>
             /\ task' = task
             /\ health' = health]_vars

\* a search has returned a non-empty list from the cache
C10_Witness ==
    \E s \in SearchIds :
        /\ srch[s].pc = "returned"
        /\ srch[s].cached_by \in SearchIds \ {s}
        /\ Len(srch[s].ret) = 1
        /\ srch[s].events = << >>
        /\ srch[s].ret = srch[srch[s].cached_by].ret

\* this step is a call of reload_sources
Reloads == rl'.emitted # rl.emitted

\* this step is the first search() call to begin since the last reload_sources:
\* a query that is not empty, with providers enabled
FirstSearchSinceReload(s) ==
    /\ rl.emitted > 0
    /\ s = rl.begun + 1
    /\ srch[s].pc = "idle"
    /\ srch'[s].pc # "idle"
    /\ Strip(srch'[s].query) # ""
    /\ EnabledSources(srch'[s].filters) # {}

\* C11: reload_sources(map) sets the enable flag of every registered provider
\* the map names and leaves the others, calls every provider's reload hook
\* whether or not a hook raises, empties the cache and emits SOURCES_RELOADED
\* once; the same map applied again leaves the same enable flags and an empty
\* cache; and the first search to begin after it is not answered from the
\* cache: it submits a task for each provider that is enabled and not blocked
C11_ReloadSources ==
    [][/\ Reloads =>
            /\ \A p \in Sources :
                 enabled'[p] = IF p \in DOMAIN rl'.enabled_dict
                                 THEN rl'.enabled_dict[p] ELSE enabled[p]
            /\ DOMAIN enabled' = Sources
            /\ \A p \in Sources : rl'.hooks[p] = rl.hooks[p] + 1
            /\ cache' = << >>
            /\ rl'.emitted = rl.emitted + 1
            /\ ReloadedEnabled(enabled', rl'.enabled_dict) = enabled'
       /\ \A s \in SearchIds :
            FirstSearchSinceReload(s) =>
               /\ srch'[s].cached_by = 0
               /\ srch'[s].events # << >>
               /\ \A p \in srch'[s].futures : task'[s][p].st = "queued"]_vars

\* C12: _deduplicate applied to its own output returns that output, element
\* for element and in the same order
C12_DedupIdempotent ==
    px.pc \in {"again", "unified"} => px.again = px.unique

\* a list of three results with an empty one and two of one infohash, of
\* which the later has more seeds, has been deduplicated twice
C12_Witness ==
    /\ px.pc = "again"
    /\ Len(xs) = 3
    /\ \E i, j, k \in 1..3 :
         /\ i < j
         /\ xs[i].infohash # "" /\ xs[i].infohash = xs[j].infohash
         /\ xs[i].seeds < xs[j].seeds
         /\ xs[k].infohash = "" /\ xs[k].magnet = "" /\ xs[k].title = ""
         /\ px.unique = << xs[j] >>
    /\ px.again = px.unique

\* a result with an infohash
IsTorrent(r) == r.infohash # ""

\* the identity of a result without infohash: its lowercased link, its
\* lowercased title when it has no link
NonTorrentKey(r) ==
    IF LinkInfo(r.magnet).lower # "" THEN LinkInfo(r.magnet).lower
    ELSE TitleInfo(r.title).lower

\* the results r and q are duplicates of each other
SameIdentity(r, q) ==
    IF IsTorrent(r) THEN r.infohash = q.infohash
    ELSE ~IsTorrent(q) /\ NonTorrentKey(r) = NonTorrentKey(q)

\* the position in xs of the first result that has the identity of r
FirstSeen(r) ==
    CHOOSE k \in 1..Len(xs) :
        /\ SameIdentity(r, xs[k])
        /\ \A j \in 1..(k - 1) : ~SameIdentity(r, xs[j])

\* C13: the output of _deduplicate holds at most one result per infohash, an
\* input with the most seeds of that infohash and the earliest such; at most
\* one result without infohash per lowercased link (lowercased title when the
\* link is empty), the first seen; the results with an infohash come before
\* those without, each group in the order their identities first occur
C13_DedupKeeps ==
    px.pc # "input" =>
      LET u == px.unique IN
      /\ \A i \in 1..Len(u) :
           /\ \E k \in 1..Len(xs) : SameIdentity(u[i], xs[k])
           /\ IsTorrent(u[i]) =>
                \E k \in 1..Len(xs) :
                   /\ xs[k] = u[i]
                   /\ \A j \in 1..Len(xs) :
                        xs[j].infohash = u[i].infohash =>
                           /\ xs[j].seeds <= u[i].seeds
                           /\ j < k => xs[j].seeds < u[i].seeds
           /\ ~IsTorrent(u[i]) => u[i] = xs[FirstSeen(u[i])]
      /\ \A i, j \in 1..Len(u) :
           i < j =>
             /\ ~SameIdentity(u[i], u[j])
             /\ IsTorrent(u[j]) => IsTorrent(u[i])
             /\ IsTorrent(u[i]) = IsTorrent(u[j]) => FirstSeen(u[i]) < FirstSeen(u[j])

\* the later of two results of one infohash and equal seeds was dropped, a
\* later one with more seeds was kept, and a result without infohash that
\* came between them follows it
C13_Witness ==
    /\ px.pc = "unique"
    /\ \E i, j \in 1..Len(xs) :
         /\ i < j
         /\ xs[i].infohash # "" /\ xs[i].infohash = xs[j].infohash
         /\ xs[i].seeds < xs[j].seeds
         /\ \E k \in (i + 1)..(j - 1) :
              /\ ~IsTorrent(xs[k])
              /\ px.unique = << xs[j], xs[k] >>

\* what C14 compares of a unified item: its aggregated sources and its link
\* candidates as sets, its primary link, seeds, size and title
UnifiedItem(r) ==
    [aggregated_sources |-> SeqToSet(r.aggregated_sources),
     link_candidates |-> SeqToSet(r.link_candidates),
     magnet |-> r.magnet, seeds |-> r.seeds, size |-> r.size, title |-> r.title]

UnifiedItems(results) == { UnifiedItem(results[i]) : i \in 1..Len(results) }

\* C14: _aggregate_results of a permutation of _deduplicate(xs) produces the
\* same set of unified items as _aggregate_results of _deduplicate(xs): the
\* same groups and, per group, the same aggregated sources, link candidates,
\* primary link, seeds, size and title
C14_AggregationCommutes ==
    px.pc = "unified" =>
      /\ px.unified_permuted.raised = px.unified.raised
      /\ UnifiedItems(px.unified_permuted.results) = UnifiedItems(px.unified.results)

\* this unified item was merged from several results
Merged(r) == Len(r.aggregated_sources) > 1 \/ Len(r.link_candidates) > 1

\* C15: r1 ('Acme Synth 2024 v3.1', PirateBay, a magnet, seeds 5) and r2
\* ('Acme Synth 2024 v3.1 macOS', OpenDirectory, https://mega.nz/file/abc,
\* seeds 0) aggregate to one item with aggregated_sources [PirateBay,
\* OpenDirectory], two link candidates, the magnet as primary link and source
\* 'PirateBay +1'; and after any merge the primary link and link_quality are
\* those of the first link candidate, which no other candidate beats in quality
C15_MergeExample ==
    px.pc = "unified" =>
      LET u == px.unified.results IN
      /\ xs = ProviderResults("PirateBay") \o ProviderResults("OpenDirectory") =>
           /\ Len(u) = 1
           /\ u[1].aggregated_sources = << "PirateBay", "OpenDirectory" >>
           /\ Len(u[1].link_candidates) = 2
           /\ u[1].magnet = MagnetA
           /\ u[1].source = "PirateBay +1"
      /\ \A i \in 1..Len(u) :
           Merged(u[i]) /\ u[i].link_candidates # << >> =>
             /\ u[i].magnet = u[i].link_candidates[1].url
             /\ u[i].link_quality = u[i].link_candidates[1].quality
             /\ \A k \in 1..Len(u[i].link_candidates) :
                  u[i].link_candidates[k].quality <= u[i].link_candidates[1].quality

\* C16: a DownloadJob's status only moves along queued -> resolving? ->
\* downloading <-> paused -> completed | cancelled | error, and once it is
\* cancelled or error no step of the worker and no pause, resume or cancel
\* call changes it
C16_StatusPath ==
    [][LET StatusMoves ==
               { << "queued", "resolving" >>, << "queued", "downloading" >>,
                 << "resolving", "downloading" >>,
                 << "downloading", "paused" >>, << "paused", "downloading" >>,
                 << "downloading", "completed" >>, << "paused", "completed" >> }
               \cup ({"queued", "resolving", "downloading", "paused"}
                        \X {"cancelled", "error"})
       IN  \A j \in DownloadIds :
              dj'[j].status # dj[j].status =>
                 /\ << dj[j].status, dj'[j].status >> \in StatusMoves
                 /\ dj[j].status \notin {"cancelled", "error"}]_vars

\* the worker of job j has not returned from _process_job
Working(j) == dw[j].pc \notin {"none", "done"}

\* C17: once cancel(id) has been called on a job whose worker has not
\* finished, the job is never marked completed or error, neither
\* DOWNLOAD_COMPLETED nor DOWNLOAD_ERROR is emitted for it, and when its
\* worker stops its status is cancelled
C17_CancelEndsCancelled ==
    [][\A j \in DownloadIds :
          dj[j].cancel /\ Working(j) =>
             /\ dj'[j].status \notin {"completed", "error"}
             /\ dev'[j] \cap {"download_completed", "download_error"} = {}
             /\ dw'[j].pc = "done" => dj'[j].status = "cancelled"]_vars

HoldingSlot == { j \in DownloadIds : dw[j].pc \notin {"none", "start", "done"} }

\* C19: the number of jobs whose worker holds a slot never exceeds the current
\* max_concurrent, also after set_max_concurrent; the jobs that wait for a
\* slot are not in the resolving, downloading or paused status
C19_ConcurrencyBounded ==
    /\ Cardinality(HoldingSlot) <= dm.max_concurrent
    /\ \A j \in DownloadIds :
         dw[j].pc = "start" => dj[j].status \in {"queued", "cancelled"}

\* the worker of job j is in the chunk loop of NativeRequestsBackend.download
InAttempt(j) == dw[j].pc \in {"chunks", "sleep"}

\* C20: during a native download downloaded_bytes never decreases, and after
\* every chunk written downloaded_bytes <= total_bytes whenever
\* total_bytes > 0, progress is within 0..100 and equals
\* floor(downloaded_bytes * 100 / total_bytes), and progress = 100 implies
\* downloaded_bytes = total_bytes
C20_ByteCounts ==
    [][\A j \in DownloadIds :
          /\ Working(j) => dj'[j].downloaded_bytes >= dj[j].downloaded_bytes
          /\ (InAttempt(j) /\ dj'[j].downloaded_bytes # dj[j].downloaded_bytes) =>
               /\ dj'[j].progress \in 0..100
               /\ dj'[j].total_bytes > 0 =>
                    /\ dj'[j].downloaded_bytes <= dj'[j].total_bytes
                    /\ dj'[j].progress =
                         (dj'[j].downloaded_bytes * 100) \div dj'[j].total_bytes
                    /\ dj'[j].progress = 100 =>
                         dj'[j].downloaded_bytes = dj'[j].total_bytes]_vars

\* the providers whose results are in the job's page of results
JobResultSources ==
    { job.result.groups[i].source : i \in 1..Len(job.result.groups) }

\* C24: a cancel call on a running search job sets the status cancelling; the
\* runner leaves its wait loop at the next return of wait(); the job comes to
\* status cancelled with phase done, and its runner ends in no other status
\* once the cancellation is requested; and no result of a provider task that
\* was still pending when the runner saw the cancellation is in its result
C24_CancelSearchJob ==
    /\ [][/\ (job.status = "running" /\ job'.cancelRequested) =>
                job'.status = "cancelling"
          /\ (job.cancelRequested /\ job.pc = "wait" /\ job' # job) =>
                job'.pc \in {"final", "over"}
          /\ (job.cancelRequested /\ job.pc = "final") =>
                job'.all_results \in {job.all_results, << >>}
          /\ (job.cancelRequested /\ job.pc # "over" /\ job'.pc = "over") =>
                job'.status = "cancelled" /\ job'.phase = "done"]_vars
    /\ [](\A p \in Sources :
            (job.phase = "done" /\ job.sources[p].status = "cancelled")
               => p \notin JobResultSources)
    /\ ((job.cancelRequested /\ job.pc \notin {"none", "over"})
           ~> (job.status = "cancelled" /\ job.phase = "done"))

\* the providers the job has counted in progress.completedSources
JobCounted(j) ==
    { p \in Sources :
        j.sources[p].status \in {"skipped", "done", "error", "timeout", "cancelled"} }

\* C25: in a search job progress.completedSources never decreases, never
\* exceeds progress.totalSources, and is the number of selected providers
\* that are skipped, done, error, timeout or cancelled: each is counted once
C25_CompletedSources ==
    [][/\ job'.completedSources >= job.completedSources
       /\ job'.completedSources <= job'.totalSources
       /\ job'.completedSources = Cardinality(JobCounted(job'))
       /\ JobCounted(job) \subseteq JobCounted(job')]_vars

\* a job over with both its providers counted, one skipped for its open
\* circuit and one whose task had not returned
C25_Witness ==
    /\ job.pc = "over"
    /\ job.totalSources = 2
    /\ job.completedSources = 2
    /\ \E p, q \in Sources :
         /\ job.sources[p].status = "skipped"
         /\ job.sources[q].status \in {"timeout", "cancelled"}

\* C26: when a search job is in phase done none of its providers is pending
\* or running: each is done, error, skipped, timeout or cancelled, timeout
\* only when the job was not cancelled and cancelled only when it was;
\* completedSources = totalSources; and a job with status done is not partial
C26_JobDone ==
    job.phase = "done" =>
       /\ \A p \in Sources :
            /\ job.sources[p].status \notin {"pending", "running"}
            /\ job.sources[p].status = "cancelled" => job.cancelRequested
       /\ job.completedSources = job.totalSources
       /\ job.status = "done" => ~job.partial

\* C27: after every createJob the table holds at most 80 jobs and the job
\* just created; the jobs that began more than 45 minutes ago are gone; and
\* of the jobs that had not expired none is evicted while a job created
\* before it is kept
C27_JobTableBounded ==
    [][sj'.made = sj.made + 1 =>
         /\ Len(sj'.jobs) <= max_jobs
         /\ sj.made + 1 \in TableIds(sj'.jobs)
         /\ Expired(sj.jobs, sj.clock) \cap TableIds(sj'.jobs) = {}
         /\ \A e \in TableIds(sj.jobs) \ (TableIds(sj'.jobs) \cup Expired(sj.jobs, sj.clock)) :
              \A k \in TableIds(sj.jobs) \cap TableIds(sj'.jobs) : e < k]_vars

\* C28: every provider search and every download step that ran on a
\* background thread ran under the session context of the request it was
\* started by
C28_SessionInherited ==
    \A r \in ss.ran : r.session = r.of

\* C29: what SourceManager.search returns is a list of its own, not the list
\* the cache entry holds, and a cache hit returns the rows the entry was
\* given, whatever the earlier callers appended to what they got
C29_CacheCopies ==
    /\ hp.got.list # 0 => hp.got.list # hp.cache[hp.got.query]
    /\ hp.got.hit => hp.got.rows = hp.stored[hp.got.query]

\* C30: a callback is in the list of an event at most once; emit calls the
\* callbacks subscribed to its event, each once, in the order of their
\* subscription, whichever of them raise, and no exception leaves emit; after
\* clear the list of every event is empty until the next subscribe, and an
\* emit calls nobody
C30_EventBus ==
    /\ [](\A e \in BusEvents : \A i, j \in 1..Len(bus.subscribers[e]) :
             bus.subscribers[e][i] = bus.subscribers[e][j] => i = j)
    /\ [](bus.op = "emit" =>
             /\ bus.last.called = bus.subscribers[bus.last.event]
             /\ ~bus.last.propagated)
    /\ [](bus.op = "clear" => \A e \in BusEvents : bus.subscribers[e] = << >>)
    /\ [][bus.op = "clear" /\ bus'.op = "emit" => bus'.last.called = << >>]_vars

\* an emit called three callbacks although the first of them raised
C30_Witness ==
    /\ bus.op = "emit"
    /\ Len(bus.last.called) = 3
    /\ bus.last.called[1] \in bus.last.raising

\* C21: a download by the native backend that found the first k bytes of the
\* resource in the file (k at least 1) and completed, the response being a
\* 206 or a 200, leaves in the file the bytes of the resource
C21_ResumeEqualsScratch ==
    fs.pc = "done" /\ fs.range >= 1 => fs.file = fs.payload

\* C22: retry_download(id) returns a new job exactly when the job exists and
\* its status is error or cancelled; the new job is queued with the output
\* path, the magnet and the direct URL of the old one and its title followed
\* by "(retry)"; otherwise no job is created; the record of the old job and
\* of every other job stays as it was
C22_RetryDownload ==
    [][dm'.retry.calls # dm.retry.calls =>
         LET j == dm'.retry.job_id
             n == dm'.retry.returned
         IN  /\ n # 0 <=> (dj[j].kind # "" /\ dj[j].status \in {"error", "cancelled"})
             /\ n # 0 =>
                  /\ dj[n].kind = ""
                  /\ dj'[n].status = "queued"
                  /\ dj'[n].output_path = dj[j].output_path
                  /\ dj'[n].magnet = dj[j].magnet
                  /\ dj'[n].direct_url = dj[j].direct_url
                  /\ dj'[n].title = dj[j].title \o << "(retry)" >>
                  /\ "download_queued" \in dev'[n]
                  /\ dw'[n].pc = "start"
             /\ \A i \in DownloadIds : i # n => dj'[i] = dj[i] /\ dw'[i] = dw[i]
    ]_vars

\* a cancelled job was retried and the job made for it is completed
C22_Witness ==
    /\ dm.retry.returned # 0
    /\ dj[dm.retry.job_id].status = "cancelled"
    /\ dj[dm.retry.returned].status = "completed"

\* C23: when is_available() of the selected backend is False, _download_file
\* calls download() of the native backend and of no other, and leaves in
\* status_detail that the selected backend is unavailable and the native one
\* used
C23_NativeFallback ==
    /\ [](\A j \in DownloadIds :
            dw[j].backend # "" /\ ~dw[j].available => dw[j].backend = "native")
    /\ [][\A j \in DownloadIds :
            dw[j].pc = "download" /\ dw'[j].pc # "download" /\ ~dw'[j].available =>
                /\ dw'[j].pc = "request"
                /\ dj'[j].status_detail = UnavailableDetail(dm.selected_backend)
                /\ "download_progress" \in dev'[j]]_vars

\* aria2 was selected and unavailable, and the job is completed with the
\* whole body written by the native backend
C23_Witness ==
    \E j \in DownloadIds :
        /\ dm.selected_backend = "aria2"
        /\ ~dw[j].available
        /\ dw[j].backend = "native"
        /\ dj[j].status = "completed"
        /\ dj[j].downloaded_bytes = 1
        /\ dj[j].progress = 100

\* C36: once the status of a search job is done, cancelled or error, no step
\* changes it
C36_TerminalStable ==
    [][job.status \in {"done", "cancelled", "error"} => job'.status = job.status]_vars

\* the SEARCH_PROGRESS events of all search() calls that name provider p
ProgressEventsFor(p) ==
    { << s, i >> \in SearchIds \X (1..(Cardinality(Sources) + 2)) :
        /\ i <= Len(srch[s].events)
        /\ srch[s].events[i].type = "search_progress"
        /\ srch[s].events[i].source = p }

\* C34: a search() call that submitted k >= 1 provider tasks and is over has
\* emitted SEARCH_STARTED, then k SEARCH_PROGRESS events, one for each
\* submitted provider, with completed = 1..k in this order and total = k,
\* then SEARCH_COMPLETED, and nothing else; and the health of a provider has
\* one outcome for each SEARCH_PROGRESS event that names it
C34_ProgressEvents ==
    /\ \A s \in SearchIds :
         (Over(s) /\ srch[s].futures # {}) =>
            LET ev == srch[s].events
                k == Cardinality(srch[s].futures)
            IN  /\ Len(ev) = k + 2
                /\ ev[1].type = "search_started"
                /\ ev[k + 2].type = "search_completed"
                /\ \A i \in 1..k :
                     /\ ev[i + 1].type = "search_progress"
                     /\ ev[i + 1].completed = i
                     /\ ev[i + 1].total = k
                     /\ ev[i + 1].source \in srch[s].futures
                     /\ \A j \in 1..k : ev[j + 1].source = ev[i + 1].source => j = i
    /\ \A p \in Sources :
         health[p].successes + health[p].failures = Cardinality(ProgressEventsFor(p))

\* C40: when search() ends, each provider that is still pending gets one
\* failed outcome in its health: attempts, failures and consecutive_failures
\* one more each, successes as before, and the circuit open once
\* consecutive_failures has come to circuit_failure_threshold; and what the
\* task of such a provider does after the search is over changes neither the
\* health nor the search nor the cache
C40_PendingRecordedOnce ==
    [][\A s \in SearchIds :
         /\ (srch[s].pc = "final" /\ Over(s)') =>
               \A p \in srch[s].pending :
                  /\ health'[p].attempts = health[p].attempts + 1
                  /\ health'[p].failures = health[p].failures + 1
                  /\ health'[p].consecutive_failures = health[p].consecutive_failures + 1
                  /\ health'[p].successes = health[p].successes
                  /\ health'[p].last_error = srch'[s].source_warnings[p]
                  /\ health'[p].consecutive_failures >= cfg.circuit_failure_threshold
                        => health'[p].circuit_open
         /\ (Over(s) /\ task'[s] # task[s]) =>
               health' = health /\ srch' = srch /\ cache' = cache]_vars

\* a provider given up as pending in two searches, the second time for fast
\* results, its circuit open at the threshold of two, while its task of the
\* second search is still inside the provider after that search is over
C40_Witness ==
    \E p \in Sources :
        /\ cfg.circuit_failure_threshold = 2
        /\ health[p].circuit_open
        /\ health[p].attempts = 2
        /\ health[p].failures = 2
        /\ health[p].successes = 0
        /\ health[p].last_error = SkippedMessage(p)
        /\ Over(1) /\ Over(2)
        /\ task[1][p] = NoTask
        /\ task[2][p].st = "calling"

----------------------------------------------------------------------------
(* _safe_search on a provider instance that several searches share:
   SourceManager.sources holds one instance per provider, and every search()
   submits _safe_search(source, ...) with that instance to the pool *)

\* what source.search(query, page) can do: as ProviderOutcomes, or find
\* nothing and set no error (piratebay.py line 119 with no exception)
SearchOutcomes(p) ==
    ProviderOutcomes(p) \cup { [raises |-> FALSE, results |-> << >>, last_error |-> ""] }

\* lines 398-402 and the first statement of the provider's search():
\* self.last_error = ""
CallEnter(c) ==
    /\ pe.call[c].pc = "queued"
    /\ pe.call[c].t.attempt < cfg.max_retries + 1
    /\ pe' = [pe EXCEPT !.last_error = "",
                        !.call[c].pc = "searching",
                        !.call[c].t.attempts = @ + 1,
                        !.call[c].t.entered = @ + 1]
    /\ UNCHANGED but_pe

\* the provider's search() ends with the outcome o: it writes self.last_error
\* when it failed, and leaves the attribute alone when it did not
CallSearch(c, o) ==
    /\ pe.call[c].pc = "searching"
    /\ o \in SearchOutcomes(pe.name)
    /\ pe' = [pe EXCEPT !.last_error = IF ~o.raises /\ o.last_error # ""
                                         THEN o.last_error ELSE @,
                        !.call[c].pc = "back",
                        !.call[c].o = o]
    /\ UNCHANGED but_pe

\* lines 403-423: getattr(source, "last_error", "") and what follows from it
CallRead(c) ==
    /\ pe.call[c].pc = "back"
    /\ LET step == SafeSearchStep(pe.call[c].t, pe.name, pe.call[c].o, pe.last_error)
       IN pe' = [pe EXCEPT !.call[c] =
                    IF step.done
                      THEN [@ EXCEPT !.pc = "done", !.out = step.out]
                      ELSE [@ EXCEPT !.pc = "queued", !.t.attempt = @ + 1,
                                     !.t.last_warning = step.last_warning]]
    /\ UNCHANGED but_pe

\* Two searches have submitted _safe_search for the same provider
InitLastError ==
    /\ Untouched
    /\ NoDownloads
    /\ NoEarlier
    /\ hc = NoHttp
    /\ stg = NoSettings
    /\ \E p \in {"PirateBay", "OpenDirectory"} :
         pe = [name |-> p, last_error |-> "",
               call |-> [c \in Calls |-> [NoSafeSearch EXCEPT !.pc = "queued"]]]

NextLastError ==
    \/ \E c \in Calls : CallEnter(c)
    \/ \E c \in Calls, raises \in BOOLEAN, found \in BOOLEAN,
          last_error \in {"", ErrUpstream, ErrNoOdLinks, ErrHardFail} :
           CallSearch(c, [raises |-> raises,
                          results |-> IF found THEN ProviderResults(pe.name) ELSE << >>,
                          last_error |-> last_error])
    \/ \E c \in Calls : CallRead(c)

SpecLastError == InitLastError /\ [][NextLastError]_vars

\* what the call c would report from the last_error its own search() left
OwnReport(c) ==
    SafeSearchStep(pe.call[c].t, pe.name, pe.call[c].o, pe.call[c].o.last_error)

\* C39: the warning and the ok flag a _safe_search call reports are those of
\* the last_error its own source.search left, also when another call runs the
\* same provider instance: a call that found nothing without an error is not
\* reported failed, and a failed call is not reported successful.
C39_OwnLastError ==
    [][\A c \in Calls :
          (pe.call[c].pc = "back" /\ pe'.call[c].pc # "back") =>
             /\ (pe'.call[c].pc = "done") = OwnReport(c).done
             /\ OwnReport(c).done =>
                   /\ pe'.call[c].out.ok = OwnReport(c).out.ok
                   /\ pe'.call[c].out.warning = OwnReport(c).out.warning]_vars

\* a call that is the first to enter the provider instance reports its own
AloneReportsOwn ==
    [][\A c \in Calls :
          (/\ pe.call[c].pc = "back" /\ pe'.call[c].pc # "back"
           /\ \A d \in Calls \ {c} : pe.call[d].t.entered = 0) =>
             /\ (pe'.call[c].pc = "done") = OwnReport(c).done
             /\ OwnReport(c).done =>
                   /\ pe'.call[c].out.ok = OwnReport(c).out.ok
                   /\ pe'.call[c].out.warning = OwnReport(c).out.warning]_vars

\* C35: once the thread of _process_job has ended, the status of its job is
\* completed, cancelled or error, whatever pause, resume and cancel calls ran
\* beside it.
C35_FinishedIsTerminal ==
    \A j \in DownloadIds :
        dw[j].pc = "done" => dj[j].status \in {"completed", "cancelled", "error"}

\* the events the control calls of the manager emit
ControlEvents ==
    {"download_queued", "download_paused", "download_resumed", "download_cancelled",
     "download_deleted"}

\* C33: delete_download only takes the job out of self.jobs: the job is not
\* changed (neither flag is set), DOWNLOAD_DELETED is emitted once; after it
\* pause, resume, cancel, retry and delete on that id change nothing and emit
\* nothing, and a delete of an unknown id is a call without effect or event.
C33_DeleteOnlyUnlinks ==
    [][/\ dm.deleted \subseteq dm'.deleted
       /\ dm'.deleted_events - dm.deleted_events
            = Cardinality(dm'.deleted \ dm.deleted)
       /\ \A j \in dm'.deleted \ dm.deleted :
            /\ j \in EverQueued
            /\ dj' = dj /\ dw' = dw
            /\ dev' = [dev EXCEPT ![j] = @ \cup {"download_deleted"}]
            /\ dm'.deleted = dm.deleted \cup {j}
       /\ \A j \in dm.deleted :
            /\ dj'[j].pause = dj[j].pause
            /\ dj'[j].cancel = dj[j].cancel
            /\ dj'[j].status # dj[j].status => dw'[j] # dw[j]
            /\ (dev'[j] \ dev[j]) \cap ControlEvents = {}
       /\ (dm'.retry.calls # dm.retry.calls /\ dm'.retry.job_id \notin Queued) =>
            /\ dm'.retry.returned = 0
            /\ dj' = dj /\ dw' = dw /\ dev' = dev
       /\ dm'.absent # dm.absent =>
            /\ dj' = dj /\ dw' = dw /\ dev' = dev
            /\ dm'.deleted = dm.deleted]_vars

\* a job deleted while its thread was at work, which completed it afterwards;
\* control calls and a retry were made on its id after the delete
C33_Witness ==
    \E j \in dm.deleted :
        /\ dm.absent = MaxAbsentCalls
        /\ dm.retry.calls > 0 /\ dm.retry.job_id = j
        /\ dj[j].status = "completed"
        /\ "download_completed" \in dev[j]
        /\ ~dj[j].pause /\ ~dj[j].cancel

\* C37: once reload_sources has returned, no search() answers from the cache
\* with a page that a search begun before that reload computed, also when
\* that search was running during the reload and ended after it.
C37_NoPageFromBeforeReload ==
    [][\A s \in SearchIds :
          (/\ rl.emitted > 0
           /\ srch[s].pc = "idle"
           /\ srch'[s].pc = "returned"
           /\ srch'[s].cached_by # 0) => srch'[s].cached_by > rl.begun]_vars

\* job["result"] as one pass of _deduplicate, _aggregate_results,
\* _software_filter and the page makes it of the results the providers returned
OnePass == JobRank(job.returned, job.page, job.per_page, job.include_media)

\* a unified entry names every provider once, and its label is the first of
\* them with the number of the others
NamesProvidersOnce(r) ==
    /\ \A i \in 1..Len(r.aggregated_sources) : r.aggregated_sources[i] \in Sources
    /\ \A i, k \in 1..Len(r.aggregated_sources) :
          r.aggregated_sources[i] = r.aggregated_sources[k] => i = k
    /\ Len(r.aggregated_sources) > 1 =>
          r.source = r.aggregated_sources[1] \o " +"
                       \o ToString(Len(r.aggregated_sources) - 1)

\* C31: whenever the runner of a search job has recomputed job["result"], the
\* result is what one pass of dedupe and aggregate over the results the
\* providers returned gives: every group lists each contributing provider
\* once in aggregated_sources and is labelled with the first and the number
\* of the others.
C31_RecomputeIsOnePass ==
    (job.pc \in {"wait", "final", "over"} /\ job.status # "error"
       /\ job.result # NoResult /\ ~OnePass.raised) =>
        /\ job.result = OnePass.result
        /\ \A i \in 1..Len(job.result.groups) : NamesProvidersOnce(job.result.groups[i])

----------------------------------------------------------------------------
(* HTTPSource of pluggy/sources/http_source.py: search() for one URL
   template, its cache and its background refresh.  A result list is named
   by the number of the upstream query that fetched it. *)

\* _cache_get, lines 861-876: "none" stands for None; "fresh" and "stale" are
\* the two ways to return the data
HttpCacheGet(payload, time, ttl, allow_stale) ==
    IF payload = NoPayload THEN "none"
    ELSE IF time - payload.ts <= ttl THEN "fresh"
    ELSE IF allow_stale THEN "stale"
    ELSE "none"

\* search(query, page) for the template, lines 439-465: a cached list is
\* returned, and a refresh submitted if http_background_refresh is set;
\* otherwise _query_single_source is called and what it returns is cached
HttpSearch(query, raises) ==
    LET found == HttpCacheGet(hc.cache[query], hc.time, hc.http_cache_ttl_seconds,
                              hc.http_allow_stale_cache)
    IN
    /\ hc.searches < MaxHttpSearches
    /\ IF found # "none"
         THEN /\ ~raises
              /\ hc' = [hc EXCEPT
                          !.searches = @ + 1,
                          !.refresh_pool = IF hc.http_background_refresh
                                             THEN Append(@, query) ELSE @,
                          !.last = [query |-> query, found |-> found,
                                    results |-> hc.cache[query].data,
                                    submitted |-> hc.http_background_refresh]]
         ELSE hc' = [hc EXCEPT
                      !.searches = @ + 1,
                      !.queries = @ + 1,
                      !.cache[query] = IF raises THEN @
                                       ELSE [ts |-> hc.time, data |-> << hc.queries + 1 >>],
                      !.last = [query |-> query, found |-> found,
                                results |-> IF raises THEN << >>
                                            ELSE << hc.queries + 1 >>,
                                submitted |-> FALSE]]
    /\ UNCHANGED but_hc

\* _refresh_single_source, lines 846-855, run by the refresh pool
HttpRefresh(raises) ==
    /\ hc.refresh_pool # << >>
    /\ hc' = [hc EXCEPT
                !.refresh_pool = Tail(@),
                !.queries = @ + 1,
                !.cache[Head(hc.refresh_pool)] =
                    IF raises THEN @ ELSE [ts |-> hc.time, data |-> << hc.queries + 1 >>]]
    /\ UNCHANGED but_hc

\* time passes
HttpTick ==
    /\ hc.time < MaxHttpTicks * HttpTickSeconds
    /\ hc' = [hc EXCEPT !.time = @ + HttpTickSeconds]
    /\ UNCHANGED but_hc

\* An HTTPSource with one template and any setting of the two switches
InitHttp ==
    /\ Untouched
    /\ NoDownloads
    /\ NoEarlier
    /\ pe = NoProvider
    /\ stg = NoSettings
    /\ \E allow_stale \in BOOLEAN, background_refresh \in BOOLEAN :
         hc = [NoHttp EXCEPT !.http_allow_stale_cache = allow_stale,
                             !.http_background_refresh = background_refresh]

NextHttp ==
    \/ \E query \in HttpQueries, raises \in BOOLEAN : HttpSearch(query, raises)
    \/ \E raises \in BOOLEAN : HttpRefresh(raises)
    \/ HttpTick

SpecHttp == InitHttp /\ [][NextHttp]_vars

\* this step is a search() call
HttpSearches == hc'.searches = hc.searches + 1

\* the entry of the query of this search() call was fresh, or stale
HttpEntryIs(found) ==
    LET payload == hc.cache[hc'.last.query] IN
    /\ payload # NoPayload
    /\ IF found = "fresh"
         THEN hc.time - payload.ts <= hc.http_cache_ttl_seconds
         ELSE hc.time - payload.ts > hc.http_cache_ttl_seconds

\* C32: a search() for a key whose cache entry is fresh returns the cached
\* results and neither queries upstream nor schedules a query; a refresh is
\* scheduled only for a stale entry with allow_stale_cache set, and then the
\* stale results are returned.
C32_FreshHitNoUpstream ==
    [][HttpSearches =>
         /\ HttpEntryIs("fresh") =>
               /\ hc'.last.results = hc.cache[hc'.last.query].data
               /\ hc'.queries = hc.queries
               /\ hc'.refresh_pool = hc.refresh_pool
         /\ hc'.refresh_pool # hc.refresh_pool =>
               /\ HttpEntryIs("stale")
               /\ hc.http_allow_stale_cache
               /\ hc'.last.results = hc.cache[hc'.last.query].data]_vars

\* the same with http_background_refresh switched off, as the test has it
FreshHitNoUpstreamWithoutRefresh ==
    [][(HttpSearches /\ ~hc.http_background_refresh) =>
         /\ HttpEntryIs("fresh") =>
               /\ hc'.last.results = hc.cache[hc'.last.query].data
               /\ hc'.queries = hc.queries
               /\ hc'.refresh_pool = hc.refresh_pool
         /\ (HttpEntryIs("stale") /\ hc.http_allow_stale_cache) =>
               /\ hc'.last.results = hc.cache[hc'.last.query].data
               /\ hc'.queries = hc.queries]_vars

----------------------------------------------------------------------------
(* SettingsManager.get and set for a profile, pluggy/core/settings_manager.py,
   and set_session of pluggy/core/request_context.py.  Each thread has its
   own profile_settings_cache, a ContextVar. *)

\* _load_profile_settings, lines 326-345: the cached dict, or the row of the
\* store over the defaults
LoadProfileSettings(cached, persisted) ==
    IF cached # NoSettingsCache THEN cached
    ELSE [k \in SettingsKeys |-> persisted[k]]

\* set_session, request_context.py lines 28-31: the thread begins to work for
\* a request, or for a task that was handed a session
SetSession(t) ==
    /\ stg.calls < MaxSettingsCalls
    /\ stg.thread[t].pc = "idle"
    /\ stg' = [stg EXCEPT !.calls = @ + 1, !.thread[t].cache = NoSettingsCache]
    /\ UNCHANGED but_stg

\* get(key): _active_settings_dict loads and caches the settings of the profile
SettingsGet(t) ==
    /\ stg.calls < MaxSettingsCalls
    /\ stg.thread[t].pc = "idle"
    /\ stg' = [stg EXCEPT !.calls = @ + 1,
                          !.thread[t].cache = LoadProfileSettings(@, stg.persisted)]
    /\ UNCHANGED but_stg

\* set(key, value), lines 484-488: _active_settings_dict returns scoped
SettingsSetBegin(t, value) ==
    /\ stg.calls < MaxSettingsCalls
    /\ stg.thread[t].pc = "idle"
    /\ stg' = [stg EXCEPT !.calls = @ + 1,
                          !.thread[t].pc = "set",
                          !.thread[t].value = value,
                          !.thread[t].cache = LoadProfileSettings(@, stg.persisted)]
    /\ UNCHANGED but_stg

\* set(key, value), lines 499-503: scoped[key] = value, the whole dict is
\* stored as the row of the profile and cached
SettingsSetStore(t) ==
    LET scoped == [stg.thread[t].cache EXCEPT ![KeyOf(t)] = stg.thread[t].value]
    IN
    /\ stg.thread[t].pc = "set"
    /\ stg' = [stg EXCEPT !.persisted = scoped,
                          !.thread[t].cache = scoped,
                          !.thread[t].pc = "idle",
                          !.thread[t].wrote = stg.thread[t].value]
    /\ UNCHANGED but_stg

\* Two threads of one profile, each setting its own key
InitSettings ==
    /\ Untouched
    /\ NoDownloads
    /\ NoEarlier
    /\ pe = NoProvider
    /\ hc = NoHttp
    /\ stg = NoSettings

NextSettings ==
    \/ \E t \in SettingsThreads : SetSession(t)
    \/ \E t \in SettingsThreads : SettingsGet(t)
    \/ \E t \in SettingsThreads, value \in 1..2 : SettingsSetBegin(t, value)
    \/ \E t \in SettingsThreads : SettingsSetStore(t)

SpecSettings == InitSettings /\ [][NextSettings]_vars

\* the row of the profile holds what thread t stored last under its key
KeepsWriteOf(t) ==
    stg.thread[t].wrote # 0 => stg.persisted[KeyOf(t)] = stg.thread[t].wrote

\* C38: the writes of two threads of one profile to different keys are both
\* in the persisted settings of the profile.
C38_NoLostWrite == \A t \in SettingsThreads : KeepsWriteOf(t)

\* a set() stores its value, and while one thread alone has stored, its
\* write is kept
LoneWriterKeepsWrite ==
    /\ \A t \in SettingsThreads :
          (\A u \in SettingsThreads \ {t} : stg.thread[u].wrote = 0 /\ stg.thread[u].pc = "idle")
             => KeepsWriteOf(t)

====
